---------------------------- MODULE Spec2Model ----------------------------
(***************************************************************************)
(* Model of the validation and rule-consistency engine (class Validator,   *)
(* app/utils/validations.ts, the version with rule support) and of its     *)
(* callers' use of it.                                                     *)
(*                                                                         *)
(* A JavaScript string is a sequence of one-character strings, so that     *)
(* trim, split, parseInt and the bracket/hyphen tests are computed on the  *)
(* characters as the code computes them.  A loosely-typed cell value is a  *)
(* record [t, s, n]: a string (t = "str") or a number (t = "num").  A row  *)
(* is a function from the column names it has to cell values; a column a   *)
(* row does not have reads as undefined.                                   *)
(*                                                                         *)
(* A diagnostic is [type, message, row, field]; message is the rendered    *)
(* template: the sequence of its literal chunks and of the characters of   *)
(* the interpolated values.                                                *)
(***************************************************************************)
EXTENDS Integers, Sequences, FiniteSets, TLC

\* ------------------------------------------------------------------------
\* Bounds of the model
\* ------------------------------------------------------------------------

\* Longest row list a caller passes to setData / validateData.
MaxRows == 2

\* Longest rule list a caller passes to setRules / validateRules.
MaxRules == 3

\* Longest row list of the calls that vary the ID column only.
MaxIdRows == 3

\* ------------------------------------------------------------------------
\* JavaScript strings
\* ------------------------------------------------------------------------

Digits == <<"0", "1", "2", "3", "4", "5", "6", "7", "8", "9">>

IsDigit(c) == \E i \in 1..10 : Digits[i] = c

DigitVal(c) == (CHOOSE i \in 1..10 : Digits[i] = c) - 1

IsSpace(c) == c = " "

RECURSIVE TrimStart(_)
TrimStart(s) ==
    IF s # <<>> /\ IsSpace(Head(s)) THEN TrimStart(Tail(s)) ELSE s

RECURSIVE TrimEnd(_)
TrimEnd(s) ==
    IF s # <<>> /\ IsSpace(s[Len(s)]) THEN TrimEnd(SubSeq(s, 1, Len(s) - 1)) ELSE s

\* String.prototype.trim
Trim(s) == TrimEnd(TrimStart(s))

\* String.prototype.includes for a one-character needle
Includes(s, c) == \E i \in 1..Len(s) : s[i] = c

\* String.prototype.startsWith / endsWith for a one-character needle
StartsWith(s, c) == s # <<>> /\ s[1] = c

EndsWith(s, c) == s # <<>> /\ s[Len(s)] = c

\* String.prototype.split for a one-character separator: always at least one
\* token; "".split(",") is [""].
RECURSIVE SplitFrom(_, _, _)
SplitFrom(s, sep, cur) ==
    IF s = <<>> THEN <<cur>>
    ELSE IF Head(s) = sep THEN <<cur>> \o SplitFrom(Tail(s), sep, <<>>)
    ELSE SplitFrom(Tail(s), sep, Append(cur, Head(s)))

Split(s, sep) == SplitFrom(s, sep, <<>>)

\* s.replace(/[\[\]]/g, '')
RECURSIVE StripBrackets(_)
StripBrackets(s) ==
    IF s = <<>> THEN <<>>
    ELSE IF Head(s) \in {"[", "]"} THEN StripBrackets(Tail(s))
    ELSE <<Head(s)>> \o StripBrackets(Tail(s))

\* Array.prototype.join: the elements are strings
RECURSIVE Join(_, _)
Join(parts, sep) ==
    IF parts = <<>> THEN <<>>
    ELSE IF Len(parts) = 1 THEN parts[1]
    ELSE parts[1] \o sep \o Join(Tail(parts), sep)

\* Number.prototype.toString for an integer
RECURSIVE NatToStr(_)
NatToStr(n) ==
    IF n < 10 THEN <<Digits[n + 1]>>
    ELSE Append(NatToStr(n \div 10), Digits[(n % 10) + 1])

NumToStr(n) == IF n < 0 THEN <<"-">> \o NatToStr(0 - n) ELSE NatToStr(n)

\* ------------------------------------------------------------------------
\* parseInt
\* ------------------------------------------------------------------------

NaN == [nan |-> TRUE, v |-> 0]

Int_(v) == [nan |-> FALSE, v |-> v]

isNaN(x) == x.nan

RECURSIVE DigitPrefix(_, _, _)
\* value of the longest digit prefix of s; seen tells whether a digit was read
DigitPrefix(s, acc, seen) ==
    IF s # <<>> /\ IsDigit(Head(s))
    THEN DigitPrefix(Tail(s), acc * 10 + DigitVal(Head(s)), TRUE)
    ELSE IF seen THEN Int_(acc) ELSE NaN

\* parseInt(string): leading white space skipped, optional sign, then the
\* longest run of decimal digits; NaN when there is none.
parseIntStr(s) ==
    LET t == TrimStart(s)
        neg == t # <<>> /\ Head(t) = "-"
        signed == t # <<>> /\ Head(t) \in {"-", "+"}
        r == DigitPrefix(IF signed THEN Tail(t) ELSE t, 0, FALSE)
    IN  IF r.nan THEN NaN ELSE IF neg THEN Int_(0 - r.v) ELSE r

\* ------------------------------------------------------------------------
\* Loosely-typed cell values and rows (interface DataRow)
\* ------------------------------------------------------------------------

Str(s) == [t |-> "str", s |-> s, n |-> 0]

Num(n) == [t |-> "num", s |-> <<>>, n |-> n]

Undefined == [t |-> "undef", s |-> <<>>, n |-> 0]

\* row[col]: undefined for a column the row does not have
Get(row, col) == IF col \in DOMAIN row THEN row[col] ELSE Undefined

\* JavaScript truthiness: undefined, "" and 0 are falsy
Truthy(v) == (v.t = "str" /\ v.s # <<>>) \/ (v.t = "num" /\ v.n # 0)

\* String(v), as template interpolation and parseInt's argument conversion do
ToStr(v) ==
    CASE v.t = "str" -> v.s
      [] v.t = "num" -> NumToStr(v.n)
      [] OTHER -> <<"u", "n", "d", "e", "f", "i", "n", "e", "d">>

\* parseInt(v) for a cell value
parseInt(v) == parseIntStr(ToStr(v))

\* ------------------------------------------------------------------------
\* JSON.parse, as a recogniser: objects, arrays, strings without escapes,
\* integers and the three literals, with white space between tokens.  The
\* result is the position after the value read, 0 for a syntax error.
\* ------------------------------------------------------------------------

RECURSIVE SkipWs(_, _)
SkipWs(s, i) == IF i <= Len(s) /\ IsSpace(s[i]) THEN SkipWs(s, i + 1) ELSE i

RECURSIVE SkipDigits(_, _)
SkipDigits(s, i) == IF i <= Len(s) /\ IsDigit(s[i]) THEN SkipDigits(s, i + 1) ELSE i

JString(s, i) ==
    IF i <= Len(s) /\ s[i] = "\""
    THEN LET closing == {j \in (i + 1)..Len(s) : s[j] = "\""}
         IN  IF closing = {} THEN 0
             ELSE (CHOOSE j \in closing : \A k \in closing : j <= k) + 1
    ELSE 0

JNumber(s, i) ==
    LET j == IF i <= Len(s) /\ s[i] = "-" THEN i + 1 ELSE i
    IN  IF j > Len(s) \/ ~IsDigit(s[j]) THEN 0
        ELSE IF s[j] = "0" THEN j + 1
        ELSE SkipDigits(s, j)

JLiteral(s, i, word) ==
    IF i + Len(word) - 1 <= Len(s) /\ SubSeq(s, i, i + Len(word) - 1) = word
    THEN i + Len(word) ELSE 0

RECURSIVE JValue(_, _)
RECURSIVE JElements(_, _)
RECURSIVE JMembers(_, _)

JValue(s, i) ==
    LET j == SkipWs(s, i)
    IN  IF j > Len(s) THEN 0
        ELSE CASE s[j] = "{" ->
                    (LET k == SkipWs(s, j + 1)
                     IN  IF k <= Len(s) /\ s[k] = "}" THEN k + 1 ELSE JMembers(s, k))
               [] s[j] = "[" ->
                    (LET k == SkipWs(s, j + 1)
                     IN  IF k <= Len(s) /\ s[k] = "]" THEN k + 1 ELSE JElements(s, k))
               [] s[j] = "\"" -> JString(s, j)
               [] s[j] = "t" -> JLiteral(s, j, <<"t", "r", "u", "e">>)
               [] s[j] = "f" -> JLiteral(s, j, <<"f", "a", "l", "s", "e">>)
               [] s[j] = "n" -> JLiteral(s, j, <<"n", "u", "l", "l">>)
               [] OTHER -> JNumber(s, j)

JElements(s, i) ==
    LET e == JValue(s, i)
        k == SkipWs(s, e)
    IN  IF e = 0 \/ k > Len(s) THEN 0
        ELSE IF s[k] = "]" THEN k + 1
        ELSE IF s[k] = "," THEN JElements(s, k + 1)
        ELSE 0

JMembers(s, i) ==
    LET q == JString(s, SkipWs(s, i))
        c == SkipWs(s, q)
        e == IF q = 0 \/ c > Len(s) \/ s[c] # ":" THEN 0 ELSE JValue(s, c + 1)
        k == SkipWs(s, e)
    IN  IF e = 0 \/ k > Len(s) THEN 0
        ELSE IF s[k] = "}" THEN k + 1
        ELSE IF s[k] = "," THEN JMembers(s, k + 1)
        ELSE 0

\* TRUE iff JSON.parse(s) returns, FALSE iff it throws SyntaxError
JSONParses(s) ==
    LET e == JValue(s, 1)
    IN  e # 0 /\ SkipWs(s, e) = Len(s) + 1

\* ------------------------------------------------------------------------
\* Diagnostics (interface ValidationError)
\* ------------------------------------------------------------------------

\* the field property of a diagnostic pushed without one
NoField == "undefined"

Diag(type, message, row, field) ==
    [type |-> type, message |-> message, row |-> row, field |-> field]

\* concatenation of a sequence of sequences: the pushes of a forEach, in order
RECURSIVE Flatten(_)
Flatten(ss) == IF ss = <<>> THEN <<>> ELSE Head(ss) \o Flatten(Tail(ss))

\* the pushes of data.forEach((row, index) => ...), PerRow[i] being the
\* pushes made for data[i], whose index is i - 1
ForEachRow(data, PerRow) == Flatten([i \in 1..Len(data) |-> PerRow[i]])

\* Array.prototype.filter on a sequence, the kept elements marked by a set of
\* positions
RECURSIVE KeepAt(_, _, _)
KeepAt(seq, keep, i) ==
    IF i > Len(seq) THEN <<>>
    ELSE (IF i \in keep THEN <<seq[i]>> ELSE <<>>) \o KeepAt(seq, keep, i + 1)

\* ------------------------------------------------------------------------
\* Validator.validateRequiredColumns
\* ------------------------------------------------------------------------

requiredColumns ==
    [clients |-> <<"ClientID", "ClientName", "PriorityLevel", "RequestedTaskIDs",
                   "GroupTag", "AttributesJSON">>,
     workers |-> <<"WorkerID", "WorkerName", "Skills", "AvailableSlots",
                   "MaxLoadPerPhase", "WorkerGroup", "QualificationLevel">>,
     tasks   |-> <<"TaskID", "TaskName", "Category", "Duration", "RequiredSkills",
                   "PreferredPhases", "MaxConcurrent">>]

MsgMissingColumns == "Missing required columns: "

validateRequiredColumns(type, data) ==
    IF Len(data) = 0 THEN <<>>
    ELSE LET columns == DOMAIN data[1]
             req == requiredColumns[type]
             missingColumns == KeepAt(req, {i \in 1..Len(req) : req[i] \notin columns}, 1)
         IN  IF Len(missingColumns) > 0
             THEN <<Diag("error",
                         <<MsgMissingColumns>> \o
                             Join([i \in 1..Len(missingColumns) |-> <<missingColumns[i]>>],
                                  <<", ">>),
                         -1, NoField)>>
             ELSE <<>>

\* ------------------------------------------------------------------------
\* Validator.validateDuplicateIds
\* ------------------------------------------------------------------------

IdField(type) ==
    IF type = "clients" THEN "ClientID"
    ELSE IF type = "workers" THEN "WorkerID" ELSE "TaskID"

\* seenIds is the Map as the sequence of its entries [id, index] in insertion
\* order; keys are compared as Map does (a number never equals a string)
SeenHas(seenIds, id) == \E k \in 1..Len(seenIds) : seenIds[k].id = id

SeenGet(seenIds, id) ==
    seenIds[CHOOSE k \in 1..Len(seenIds) : seenIds[k].id = id].index

RECURSIVE DuplicateIdsFrom(_, _, _, _)
DuplicateIdsFrom(idField, data, i, seenIds) ==
    IF i > Len(data) THEN <<>>
    ELSE LET id == Get(data[i], idField)
             index == i - 1
         IN  IF ~Truthy(id)
             THEN <<Diag("error", <<"Missing ", idField>>, index, idField)>>
                      \o DuplicateIdsFrom(idField, data, i + 1, seenIds)
             ELSE IF SeenHas(seenIds, id)
             THEN <<Diag("error",
                         <<"Duplicate ", idField, ": ">> \o ToStr(id)
                             \o <<" (also in row ">> \o NumToStr(SeenGet(seenIds, id) + 1)
                             \o <<")">>,
                         index, idField)>>
                      \o DuplicateIdsFrom(idField, data, i + 1, seenIds)
             ELSE DuplicateIdsFrom(idField, data, i + 1,
                                   Append(seenIds, [id |-> id, index |-> index]))

validateDuplicateIds(type, data) == DuplicateIdsFrom(IdField(type), data, 1, <<>>)

\* ------------------------------------------------------------------------
\* Validator.validateClientData
\* ------------------------------------------------------------------------

\* row.AttributesJSON.trim() is a TypeError when the truthy value is a number
ClientRowThrows(row) ==
    LET a == Get(row, "AttributesJSON") IN Truthy(a) /\ a.t # "str"

ClientRowErrors(row, index) ==
    LET priority == parseInt(Get(row, "PriorityLevel"))
        a == Get(row, "AttributesJSON")
    IN  (IF isNaN(priority) \/ priority.v < 1 \/ priority.v > 5
         THEN <<Diag("error",
                     <<"PriorityLevel must be between 1-5, got: ">>
                         \o ToStr(Get(row, "PriorityLevel")),
                     index, "PriorityLevel")>>
         ELSE <<>>)
        \o
        (IF Truthy(a) /\ a.t = "str" /\ Trim(a.s) # <<>> /\ ~JSONParses(a.s)
         THEN <<Diag("error", <<"Broken JSON in AttributesJSON">>, index, "AttributesJSON")>>
         ELSE <<>>)

\* [errors, threw]: threw when some row made the forEach callback throw; the
\* exception leaves validateData, so no list is returned then
validateClientData(data) ==
    [errors |-> ForEachRow(data, [i \in 1..Len(data) |-> ClientRowErrors(data[i], i - 1)]),
     threw  |-> \E i \in 1..Len(data) : ClientRowThrows(data[i])]

\* ------------------------------------------------------------------------
\* Validator.validateWorkerData
\* ------------------------------------------------------------------------

\* the slot list of the try block: [ok, slots]; ok = FALSE when a token made
\* the map callback throw 'Non-numeric value'
ParseSlotsStrict(v) ==
    IF v.t = "str"
    THEN LET cleanedSlots == Trim(StripBrackets(v.s))
         IN  IF cleanedSlots # <<>>
             THEN LET toks == Split(cleanedSlots, ",")
                      nums == [k \in 1..Len(toks) |-> parseIntStr(Trim(toks[k]))]
                  IN  IF \E k \in 1..Len(nums) : isNaN(nums[k])
                      THEN [ok |-> FALSE, slots |-> <<>>]
                      ELSE [ok |-> TRUE, slots |-> [k \in 1..Len(nums) |-> nums[k].v]]
             ELSE [ok |-> TRUE, slots |-> <<>>]
    ELSE [ok |-> TRUE, slots |-> <<>>]

\* WorkerRowErrors without the return after the 'required' error: the checks
\* below run for a row without AvailableSlots too
WorkerRowErrorsNoReturn(row, index) ==
    LET p == ParseSlotsStrict(Get(row, "AvailableSlots"))
        maxLoad == parseInt(Get(row, "MaxLoadPerPhase"))
    IN  (IF ~Truthy(Get(row, "AvailableSlots"))
         THEN <<Diag("error", <<"AvailableSlots is required">>, index, "AvailableSlots")>>
         ELSE <<>>)
        \o
        (IF ~p.ok
         THEN <<Diag("error",
                     <<"Malformed list in AvailableSlots - must contain only numeric values">>,
                     index, "AvailableSlots")>>
         ELSE IF ~isNaN(maxLoad) /\ Len(p.slots) < maxLoad.v
         THEN <<Diag("warning",
                     <<"Worker overloaded: ">> \o NumToStr(Len(p.slots))
                         \o <<" available slots < ">> \o NumToStr(maxLoad.v)
                         \o <<" max load per phase">>,
                     index, NoField)>>
         ELSE <<>>)
        \o
        (IF isNaN(maxLoad) \/ maxLoad.v < 1
         THEN <<Diag("error", <<"MaxLoadPerPhase must be >= 1">>, index, "MaxLoadPerPhase")>>
         ELSE <<>>)

WorkerRowErrors(row, index) ==
    IF ~Truthy(Get(row, "AvailableSlots"))
    THEN <<Diag("error", <<"AvailableSlots is required">>, index, "AvailableSlots")>>
    ELSE LET p == ParseSlotsStrict(Get(row, "AvailableSlots"))
             maxLoad == parseInt(Get(row, "MaxLoadPerPhase"))
         IN  (IF ~p.ok
              THEN <<Diag("error",
                          <<"Malformed list in AvailableSlots - must contain only numeric values">>,
                          index, "AvailableSlots")>>
              ELSE IF ~isNaN(maxLoad) /\ Len(p.slots) < maxLoad.v
              THEN <<Diag("warning",
                          <<"Worker overloaded: ">> \o NumToStr(Len(p.slots))
                              \o <<" available slots < ">> \o NumToStr(maxLoad.v)
                              \o <<" max load per phase">>,
                          index, NoField)>>
              ELSE <<>>)
             \o
             (IF isNaN(maxLoad) \/ maxLoad.v < 1
              THEN <<Diag("error", <<"MaxLoadPerPhase must be >= 1">>, index, "MaxLoadPerPhase")>>
              ELSE <<>>)

validateWorkerData(data) ==
    ForEachRow(data, [i \in 1..Len(data) |-> WorkerRowErrors(data[i], i - 1)])

\* ------------------------------------------------------------------------
\* Validator.validateTaskData
\* ------------------------------------------------------------------------

\* TRUE iff the try block of the PreferredPhases check throws
PreferredPhasesThrows(phasesStr) ==
    IF Includes(phasesStr, "-") /\ ~StartsWith(phasesStr, "[")
    THEN LET parts == Split(phasesStr, "-")
         IN  IF Len(parts) = 2
             THEN LET start == parseIntStr(Trim(parts[1]))
                      end == parseIntStr(Trim(parts[2]))
                  IN  isNaN(start) \/ isNaN(end) \/ start.v < 1 \/ end.v < start.v
             ELSE FALSE
    ELSE LET cleanedPhases ==
                 IF StartsWith(phasesStr, "[") /\ EndsWith(phasesStr, "]")
                 THEN SubSeq(phasesStr, 2, Len(phasesStr) - 1)
                 ELSE phasesStr
         IN  IF cleanedPhases # <<>>
             THEN LET toks == Split(cleanedPhases, ",")
                  IN  \E k \in 1..Len(toks) : isNaN(parseIntStr(Trim(toks[k])))
             ELSE FALSE

TaskRowErrors(row, index) ==
    LET duration == parseInt(Get(row, "Duration"))
        maxConcurrent == parseInt(Get(row, "MaxConcurrent"))
        pp == Get(row, "PreferredPhases")
    IN  (IF isNaN(duration) \/ duration.v < 1
         THEN <<Diag("error", <<"Duration must be >= 1, got: ">> \o ToStr(Get(row, "Duration")),
                     index, "Duration")>>
         ELSE <<>>)
        \o
        (IF isNaN(maxConcurrent) \/ maxConcurrent.v < 1
         THEN <<Diag("error",
                     <<"MaxConcurrent must be >= 1, got: ">> \o ToStr(Get(row, "MaxConcurrent")),
                     index, "MaxConcurrent")>>
         ELSE <<>>)
        \o
        (IF Truthy(pp) /\ PreferredPhasesThrows(Trim(ToStr(pp)))
         THEN <<Diag("error", <<"Malformed list in PreferredPhases">>, index, "PreferredPhases")>>
         ELSE <<>>)

validateTaskData(data) ==
    ForEachRow(data, [i \in 1..Len(data) |-> TaskRowErrors(data[i], i - 1)])

\* ------------------------------------------------------------------------
\* Validator.parsePhases
\* ------------------------------------------------------------------------

\* the integers start..end in increasing order (the for loop of the range case)
Range(start, end) == [k \in 1..(end - start + 1) |-> start + k - 1]

\* the numbers of a sequence of parseInt results that are not NaN
RECURSIVE NotNaN(_)
NotNaN(nums) ==
    IF nums = <<>> THEN <<>>
    ELSE (IF isNaN(Head(nums)) THEN <<>> ELSE <<Head(nums).v>>) \o NotNaN(Tail(nums))

\* parsePhases with the range loop stopping before end (i < end)
parsePhasesEndExclusive(phasesStr) ==
    LET cleanStr == Trim(ToStr(phasesStr))
    IN  IF Includes(cleanStr, "-") /\ ~StartsWith(cleanStr, "[")
        THEN LET parts == Split(cleanStr, "-")
                 start == parseIntStr(Trim(parts[1]))
                 end == parseIntStr(Trim(parts[2]))
             IN  IF ~isNaN(start) /\ ~isNaN(end) /\ start.v <= end.v
                 THEN Range(start.v, end.v - 1)
                 ELSE <<>>
        ELSE LET cleanedPhases ==
                     IF StartsWith(cleanStr, "[") /\ EndsWith(cleanStr, "]")
                     THEN SubSeq(cleanStr, 2, Len(cleanStr) - 1)
                     ELSE cleanStr
             IN  IF cleanedPhases # <<>>
                 THEN LET toks == Split(cleanedPhases, ",")
                      IN  NotNaN([k \in 1..Len(toks) |-> parseIntStr(Trim(toks[k]))])
                 ELSE <<>>

parsePhases(phasesStr) ==
    LET cleanStr == Trim(ToStr(phasesStr))
    IN  IF Includes(cleanStr, "-") /\ ~StartsWith(cleanStr, "[")
        THEN LET parts == Split(cleanStr, "-")
                 start == parseIntStr(Trim(parts[1]))
                 end == parseIntStr(Trim(parts[2]))
             IN  IF ~isNaN(start) /\ ~isNaN(end) /\ start.v <= end.v
                 THEN Range(start.v, end.v)
                 ELSE <<>>
        ELSE LET cleanedPhases ==
                     IF StartsWith(cleanStr, "[") /\ EndsWith(cleanStr, "]")
                     THEN SubSeq(cleanStr, 2, Len(cleanStr) - 1)
                     ELSE cleanStr
             IN  IF cleanedPhases # <<>>
                 THEN LET toks == Split(cleanedPhases, ",")
                      IN  NotNaN([k \in 1..Len(toks) |-> parseIntStr(Trim(toks[k]))])
                 ELSE <<>>

\* ------------------------------------------------------------------------
\* Validator.validatePhaseSlotSaturation
\* ------------------------------------------------------------------------

\* A Map<number, number> is the sequence of its entries [k, v] in insertion
\* order.  MapGet is map.get(k) || 0; MapAdd is map.set(k, (map.get(k) || 0) + d).
MapHas(m, k) == \E i \in 1..Len(m) : m[i].k = k

MapGet(m, k) == IF MapHas(m, k) THEN m[CHOOSE i \in 1..Len(m) : m[i].k = k].v ELSE 0

MapAdd(m, k, d) ==
    IF MapHas(m, k)
    THEN [i \in 1..Len(m) |-> IF m[i].k = k THEN [k |-> k, v |-> m[i].v + d] ELSE m[i]]
    ELSE Append(m, [k |-> k, v |-> MapGet(m, k) + d])

\* the slot list of the saturation check: NaN tokens stay in the list (as
\* elements the forEach skips), so they are dropped here
SaturationSlots(v) ==
    IF v.t = "str"
    THEN LET cleanedSlots == Trim(StripBrackets(v.s))
         IN  IF cleanedSlots # <<>>
             THEN LET toks == Split(cleanedSlots, ",")
                  IN  NotNaN([k \in 1..Len(toks) |-> parseIntStr(Trim(toks[k]))])
             ELSE <<>>
    ELSE <<>>

\* phases.forEach(phase => if (phase > 0) map.set(phase, (map.get(phase) || 0) + d))
RECURSIVE AddPhases(_, _, _)
AddPhases(m, phases, d) ==
    IF phases = <<>> THEN m
    ELSE AddPhases(IF Head(phases) > 0 THEN MapAdd(m, Head(phases), d) ELSE m,
                   Tail(phases), d)

RECURSIVE CapacityFrom(_, _, _)
CapacityFrom(workers, i, m) ==
    IF i > Len(workers) THEN m
    ELSE CapacityFrom(workers, i + 1,
                      AddPhases(m, SaturationSlots(Get(workers[i], "AvailableSlots")), 1))

\* parseInt(task.Duration) || 1
DurationOr1(task) ==
    LET d == parseInt(Get(task, "Duration"))
    IN  IF isNaN(d) \/ d.v = 0 THEN 1 ELSE d.v

RECURSIVE DemandFrom(_, _, _)
DemandFrom(tasks, i, m) ==
    IF i > Len(tasks) THEN m
    ELSE LET pp == Get(tasks[i], "PreferredPhases")
             phases == IF Truthy(pp) THEN parsePhases(pp) ELSE <<>>
         IN  DemandFrom(tasks, i + 1, AddPhases(m, phases, DurationOr1(tasks[i])))

MsgSaturation == " saturation: "

validatePhaseSlotSaturation(tData, wData) ==
    LET phaseCapacity == CapacityFrom(wData, 1, <<>>)
        phaseDemand == DemandFrom(tData, 1, <<>>)
    IN  Flatten([i \in 1..Len(phaseDemand) |->
            LET phase == phaseDemand[i].k
                demand == phaseDemand[i].v
                capacity == MapGet(phaseCapacity, phase)
            IN  IF demand > capacity
                THEN <<Diag("error",
                            <<"Phase ">> \o NumToStr(phase) \o <<MsgSaturation>>
                                \o NumToStr(demand) \o <<" task duration > ">>
                                \o NumToStr(capacity) \o <<" worker slots">>,
                            -1, NoField)>>
                ELSE <<>>])

\* ------------------------------------------------------------------------
\* Validator.validateCrossReferences
\* ------------------------------------------------------------------------

UpperCase == <<"A", "B", "C", "D", "E", "F", "G", "H", "I", "J", "K", "L", "M",
               "N", "O", "P", "Q", "R", "S", "T", "U", "V", "W", "X", "Y", "Z">>

LowerCase == <<"a", "b", "c", "d", "e", "f", "g", "h", "i", "j", "k", "l", "m",
               "n", "o", "p", "q", "r", "s", "t", "u", "v", "w", "x", "y", "z">>

\* String.prototype.toLowerCase
toLowerCase(s) ==
    [i \in 1..Len(s) |->
        IF \E k \in 1..26 : UpperCase[k] = s[i]
        THEN LowerCase[CHOOSE k \in 1..26 : UpperCase[k] = s[i]]
        ELSE s[i]]

\* v.toString().split(',').map(s => s.trim())
TrimmedTokens(v) ==
    LET toks == Split(ToStr(v), ",") IN [k \in 1..Len(toks) |-> Trim(toks[k])]

LowerTokens(v) ==
    LET toks == TrimmedTokens(v) IN [k \in 1..Len(toks) |-> toLowerCase(toks[k])]

MsgUnknownTasks == "Unknown task references: "

\* the client -> task reference check, for one client row
ClientRefErrors(row, index, validTaskIds) ==
    IF Truthy(Get(row, "RequestedTaskIDs"))
    THEN LET requestedTasks == TrimmedTokens(Get(row, "RequestedTaskIDs"))
             invalidTasks ==
                 KeepAt(requestedTasks,
                        {k \in 1..Len(requestedTasks) :
                            requestedTasks[k] # <<>> /\ Str(requestedTasks[k]) \notin validTaskIds},
                        1)
         IN  IF Len(invalidTasks) > 0
             THEN <<Diag("error", <<MsgUnknownTasks>> \o Join(invalidTasks, <<", ">>),
                         index, "RequestedTaskIDs")>>
             ELSE <<>>
    ELSE <<>>

\* the set of all worker skills, trimmed and lower-cased
AllWorkerSkills(wData) ==
    UNION {IF Truthy(Get(wData[i], "Skills"))
           THEN LET toks == LowerTokens(Get(wData[i], "Skills"))
                IN  {toks[k] : k \in 1..Len(toks)}
           ELSE {} : i \in 1..Len(wData)}

\* the qualified workers, found without lower-casing either skill list
QualifiedWorkersCaseSensitive(row, wData) ==
    LET requiredSkillsArray == TrimmedTokens(Get(row, "RequiredSkills"))
    IN  {i \in 1..Len(wData) :
            /\ Truthy(Get(wData[i], "Skills"))
            /\ LET workerSkills == TrimmedTokens(Get(wData[i], "Skills"))
               IN  \A k \in 1..Len(requiredSkillsArray) :
                       \E j \in 1..Len(workerSkills) : workerSkills[j] = requiredSkillsArray[k]}

\* the workers whose skill list includes every required skill
QualifiedWorkers(row, wData) ==
    LET requiredSkillsArray == LowerTokens(Get(row, "RequiredSkills"))
    IN  {i \in 1..Len(wData) :
            /\ Truthy(Get(wData[i], "Skills"))
            /\ LET workerSkills == LowerTokens(Get(wData[i], "Skills"))
               IN  \A k \in 1..Len(requiredSkillsArray) :
                       \E j \in 1..Len(workerSkills) : workerSkills[j] = requiredSkillsArray[k]}

\* skill coverage and concurrency feasibility, for one task row
TaskRefErrors(row, index, wData) ==
    LET allWorkerSkills == AllWorkerSkills(wData)
        rs == Get(row, "RequiredSkills")
        mc == Get(row, "MaxConcurrent")
    IN  (IF Truthy(rs)
         THEN LET requiredSkills == TrimmedTokens(rs)
                  unmatchedSkills ==
                      KeepAt(requiredSkills,
                             {k \in 1..Len(requiredSkills) :
                                 requiredSkills[k] # <<>>
                                 /\ toLowerCase(requiredSkills[k]) \notin allWorkerSkills},
                             1)
              IN  IF Len(unmatchedSkills) > 0
                  THEN <<Diag("error",
                              <<"No workers have required skills: ">>
                                  \o Join(unmatchedSkills, <<", ">>),
                              index, "RequiredSkills")>>
                  ELSE <<>>
         ELSE <<>>)
        \o
        (IF Truthy(mc) /\ Truthy(rs)
         THEN LET qualified == Cardinality(QualifiedWorkers(row, wData))
                  maxConcurrent == parseInt(mc)
              IN  IF ~isNaN(maxConcurrent) /\ qualified < maxConcurrent.v
                  THEN <<Diag("warning",
                              <<"MaxConcurrent (">> \o NumToStr(maxConcurrent.v)
                                  \o <<") exceeds qualified workers (">>
                                  \o NumToStr(qualified) \o <<")">>,
                              index, "MaxConcurrent")>>
                  ELSE <<>>
         ELSE <<>>)

\* validateCrossReferences without the this.taskData.length > 0 test of the
\* client check
validateCrossReferencesUnguarded(type, data, wData, tData) ==
    (IF type = "clients"
     THEN LET validTaskIds == {Get(tData[i], "TaskID") : i \in 1..Len(tData)}
          IN  ForEachRow(data, [i \in 1..Len(data) |->
                                   ClientRefErrors(data[i], i - 1, validTaskIds)])
     ELSE <<>>)
    \o
    (IF type = "tasks" /\ Len(wData) > 0
     THEN ForEachRow(data, [i \in 1..Len(data) |-> TaskRefErrors(data[i], i - 1, wData)])
     ELSE <<>>)
    \o
    (IF type \in {"workers", "tasks"} /\ Len(tData) > 0 /\ Len(wData) > 0
     THEN validatePhaseSlotSaturation(tData, wData)
     ELSE <<>>)

\* wData and tData are this.workerData and this.taskData
validateCrossReferences(type, data, wData, tData) ==
    (IF type = "clients" /\ Len(tData) > 0
     THEN LET validTaskIds == {Get(tData[i], "TaskID") : i \in 1..Len(tData)}
          IN  ForEachRow(data, [i \in 1..Len(data) |->
                                   ClientRefErrors(data[i], i - 1, validTaskIds)])
     ELSE <<>>)
    \o
    (IF type = "tasks" /\ Len(wData) > 0
     THEN ForEachRow(data, [i \in 1..Len(data) |-> TaskRefErrors(data[i], i - 1, wData)])
     ELSE <<>>)
    \o
    (IF type \in {"workers", "tasks"} /\ Len(tData) > 0 /\ Len(wData) > 0
     THEN validatePhaseSlotSaturation(tData, wData)
     ELSE <<>>)

\* ------------------------------------------------------------------------
\* Validator.validateData
\* ------------------------------------------------------------------------

\* validateData running the cross-reference pass before the row validator
validateDataCrossFirst(type, data, wData, tData) ==
    LET kind == IF type = "clients" THEN validateClientData(data)
                ELSE [errors |-> IF type = "workers" THEN validateWorkerData(data)
                                 ELSE validateTaskData(data),
                      threw  |-> FALSE]
    IN  IF kind.threw THEN [errors |-> <<>>, threw |-> TRUE]
        ELSE [errors |-> validateRequiredColumns(type, data)
                           \o validateDuplicateIds(type, data)
                           \o validateCrossReferences(type, data, wData, tData)
                           \o kind.errors,
              threw  |-> FALSE]

\* [errors, threw]: the list returned, or threw = TRUE when the call ends with
\* an uncaught exception and returns nothing
validateData(type, data, wData, tData) ==
    LET kind == IF type = "clients" THEN validateClientData(data)
                ELSE [errors |-> IF type = "workers" THEN validateWorkerData(data)
                                 ELSE validateTaskData(data),
                      threw  |-> FALSE]
    IN  IF kind.threw THEN [errors |-> <<>>, threw |-> TRUE]
        ELSE [errors |-> validateRequiredColumns(type, data)
                           \o validateDuplicateIds(type, data)
                           \o kind.errors
                           \o validateCrossReferences(type, data, wData, tData),
              threw  |-> FALSE]

\* ------------------------------------------------------------------------
\* Rules (app/utils/rules.ts).  A rule is one record shape for all variants;
\* the fields a variant does not have hold their empty value.  Task ids and
\* names are JavaScript strings.
\* ------------------------------------------------------------------------

CoRunRule(id, name, enabled, tasks) ==
    [id |-> id, type |-> "coRun", name |-> name, enabled |-> enabled,
     tasks |-> tasks, taskId |-> <<>>, allowedPhases |-> <<>>]

PhaseWindowRule(id, name, enabled, taskId, allowedPhases) ==
    [id |-> id, type |-> "phaseWindow", name |-> name, enabled |-> enabled,
     tasks |-> <<>>, taskId |-> taskId, allowedPhases |-> allowedPhases]

\* the filter without its enabled test
EnabledOfTypeAny(rules, type) ==
    KeepAt(rules, {i \in 1..Len(rules) : rules[i].type = type}, 1)

\* rules.filter(r => r.type === type && r.enabled)
EnabledOfType(rules, type) ==
    KeepAt(rules, {i \in 1..Len(rules) : rules[i].type = type /\ rules[i].enabled}, 1)

\* ------------------------------------------------------------------------
\* Validator.validateCircularCoRuns
\* ------------------------------------------------------------------------

\* The graph Map<string, Set<string>> is the sequence of its entries
\* [node, adj] in insertion order, adj being the Set as the sequence of its
\* elements in insertion order.
GraphHas(graph, node) == \E i \in 1..Len(graph) : graph[i].node = node

GraphGet(graph, node) == graph[CHOOSE i \in 1..Len(graph) : graph[i].node = node].adj

SeqHas(seq, x) == \E i \in 1..Len(seq) : seq[i] = x

\* graph.get(task).add(otherTask) for every otherTask of the rule but task
RECURSIVE AddOthers(_, _, _, _)
AddOthers(adj, task, tasks, j) ==
    IF j > Len(tasks) THEN adj
    ELSE AddOthers(IF tasks[j] # task /\ ~SeqHas(adj, tasks[j]) THEN Append(adj, tasks[j])
                   ELSE adj,
                   task, tasks, j + 1)

RECURSIVE AddRuleTasks(_, _, _)
AddRuleTasks(graph, tasks, i) ==
    IF i > Len(tasks) THEN graph
    ELSE LET task == tasks[i]
             g1 == IF GraphHas(graph, task) THEN graph
                   ELSE Append(graph, [node |-> task, adj |-> <<>>])
             g2 == [k \in 1..Len(g1) |->
                       IF g1[k].node = task
                       THEN [node |-> task, adj |-> AddOthers(g1[k].adj, task, tasks, 1)]
                       ELSE g1[k]]
         IN  AddRuleTasks(g2, tasks, i + 1)

RECURSIVE BuildGraph(_, _, _)
BuildGraph(graph, coRunRules, i) ==
    IF i > Len(coRunRules) THEN graph
    ELSE BuildGraph(AddRuleTasks(graph, coRunRules[i].tasks, 1), coRunRules, i + 1)

\* hasCycle(node) with the closure's visited and recStack sets as the search
\* state st = [cycle, visited, recStack, hit]; cycle is the value returned,
\* hit the node of the call that found itself on recStack (<<>> before that)
RECURSIVE hasCycle(_, _, _)
RECURSIVE hasCycleNeighbors(_, _, _, _)

\* hasCycle with its two early returns in the other order
hasCycleVisitedFirst(graph, node, st) ==
    IF node \in st.visited THEN [st EXCEPT !.cycle = FALSE]
    ELSE IF node \in st.recStack THEN [st EXCEPT !.cycle = TRUE, !.hit = node]
    ELSE LET st1 == [cycle |-> FALSE,
                     visited |-> st.visited \cup {node},
                     recStack |-> st.recStack \cup {node},
                     hit |-> st.hit]
             neighbors == IF GraphHas(graph, node) THEN GraphGet(graph, node) ELSE <<>>
             r == hasCycleNeighbors(graph, neighbors, 1, st1)
         IN  IF r.cycle THEN r
             ELSE [r EXCEPT !.recStack = r.recStack \ {node}]

hasCycle(graph, node, st) ==
    IF node \in st.recStack THEN [st EXCEPT !.cycle = TRUE, !.hit = node]
    ELSE IF node \in st.visited THEN [st EXCEPT !.cycle = FALSE]
    ELSE LET st1 == [cycle |-> FALSE,
                     visited |-> st.visited \cup {node},
                     recStack |-> st.recStack \cup {node},
                     hit |-> st.hit]
             neighbors == IF GraphHas(graph, node) THEN GraphGet(graph, node) ELSE <<>>
             r == hasCycleNeighbors(graph, neighbors, 1, st1)
         IN  IF r.cycle THEN r
             ELSE [r EXCEPT !.recStack = r.recStack \ {node}]

hasCycleNeighbors(graph, neighbors, j, st) ==
    IF j > Len(neighbors) THEN [st EXCEPT !.cycle = FALSE]
    ELSE LET r == hasCycle(graph, neighbors[j], st)
         IN  IF r.cycle THEN r ELSE hasCycleNeighbors(graph, neighbors, j + 1, r)

MsgCircular == "Circular co-run groups detected involving task "

\* the loop without its break: one error for every search that finds a cycle
RECURSIVE CircularFromNoBreak(_, _, _)
CircularFromNoBreak(graph, i, st) ==
    IF i > Len(graph) THEN <<>>
    ELSE LET node == graph[i].node
         IN  IF node \in st.visited THEN CircularFromNoBreak(graph, i + 1, st)
             ELSE LET r == hasCycle(graph, node, st)
                  IN  IF r.cycle
                      THEN <<Diag("error",
                                  <<MsgCircular>> \o node
                                      \o <<". This creates impossible scheduling constraints.">>,
                                  -1, NoField)>>
                               \o CircularFromNoBreak(graph, i + 1, r)
                      ELSE CircularFromNoBreak(graph, i + 1, r)

\* the loop with the message naming the node that was found on recStack
RECURSIVE CircularFromNamesRevisited(_, _, _)
CircularFromNamesRevisited(graph, i, st) ==
    IF i > Len(graph) THEN <<>>
    ELSE LET node == graph[i].node
         IN  IF node \in st.visited THEN CircularFromNamesRevisited(graph, i + 1, st)
             ELSE LET r == hasCycle(graph, node, st)
                  IN  IF r.cycle
                      THEN <<Diag("error",
                                  <<MsgCircular>> \o r.hit
                                      \o <<". This creates impossible scheduling constraints.">>,
                                  -1, NoField)>>
                      ELSE CircularFromNamesRevisited(graph, i + 1, r)

\* the loop over the graph's entries: stops at the first component in which
\* hasCycle returns true
RECURSIVE CircularFrom(_, _, _)
CircularFrom(graph, i, st) ==
    IF i > Len(graph) THEN <<>>
    ELSE LET node == graph[i].node
         IN  IF node \in st.visited THEN CircularFrom(graph, i + 1, st)
             ELSE LET r == hasCycle(graph, node, st)
                  IN  IF r.cycle
                      THEN <<Diag("error",
                                  <<MsgCircular>> \o node
                                      \o <<". This creates impossible scheduling constraints.">>,
                                  -1, NoField)>>
                      ELSE CircularFrom(graph, i + 1, r)

\* the empty search state
NoSearch == [cycle |-> FALSE, visited |-> {}, recStack |-> {}, hit |-> <<>>]

\* validateCircularCoRuns returning early for fewer than three enabled rules
validateCircularCoRunsMinThree(rules) ==
    LET coRunRules == EnabledOfType(rules, "coRun")
    IN  IF Len(coRunRules) < 3 THEN <<>>
        ELSE CircularFrom(BuildGraph(<<>>, coRunRules, 1), 1, NoSearch)

\* validateCircularCoRuns searching whatever the number of enabled rules
validateCircularCoRunsNoMinimum(rules) ==
    CircularFrom(BuildGraph(<<>>, EnabledOfType(rules, "coRun"), 1), 1, NoSearch)

validateCircularCoRuns(rules) ==
    LET coRunRules == EnabledOfType(rules, "coRun")
    IN  IF Len(coRunRules) < 2 THEN <<>>
        ELSE CircularFrom(BuildGraph(<<>>, coRunRules, 1), 1, NoSearch)

\* ------------------------------------------------------------------------
\* Validator.validateRuleConflicts
\* ------------------------------------------------------------------------

\* phaseConstraints is the Map<string, number[]> as the sequence of its
\* entries [task, phases] in insertion order; set() on a key it has keeps the
\* entry's place
ConstraintSet(pc, task, phases) ==
    IF \E i \in 1..Len(pc) : pc[i].task = task
    THEN [i \in 1..Len(pc) |->
             IF pc[i].task = task THEN [task |-> task, phases |-> phases] ELSE pc[i]]
    ELSE Append(pc, [task |-> task, phases |-> phases])

\* the lookup in the other order: the stored task's PreferredPhases first, a
\* PhaseWindow rule only when they give no phase
RECURSIVE PhaseConstraintsFromTaskFirst(_, _, _, _, _)
PhaseConstraintsFromTaskFirst(tasksInCoRun, i, phaseWindowRules, tData, pc) ==
    IF i > Len(tasksInCoRun) THEN pc
    ELSE LET taskId == tasksInCoRun[i]
             prs == {k \in 1..Len(phaseWindowRules) : phaseWindowRules[k].taskId = taskId}
             tds == {k \in 1..Len(tData) : Get(tData[k], "TaskID") = Str(taskId)}
             pp == IF tds # {}
                   THEN Get(tData[CHOOSE k \in tds : \A j \in tds : k <= j], "PreferredPhases")
                   ELSE Undefined
             phases == IF Truthy(pp) THEN parsePhases(pp) ELSE <<>>
             next ==
                 IF Len(phases) > 0 THEN ConstraintSet(pc, taskId, phases)
                 ELSE IF prs # {}
                 THEN ConstraintSet(pc, taskId,
                          phaseWindowRules[CHOOSE k \in prs : \A j \in prs : k <= j].allowedPhases)
                 ELSE pc
         IN  PhaseConstraintsFromTaskFirst(tasksInCoRun, i + 1, phaseWindowRules, tData, next)

\* the lookup that enters a task without a phase set as a task with no phase
RECURSIVE PhaseConstraintsFromUnknownEmpty(_, _, _, _, _)
PhaseConstraintsFromUnknownEmpty(tasksInCoRun, i, phaseWindowRules, tData, pc) ==
    IF i > Len(tasksInCoRun) THEN pc
    ELSE LET taskId == tasksInCoRun[i]
             prs == {k \in 1..Len(phaseWindowRules) : phaseWindowRules[k].taskId = taskId}
             tds == {k \in 1..Len(tData) : Get(tData[k], "TaskID") = Str(taskId)}
             next ==
                 IF prs # {}
                 THEN ConstraintSet(pc, taskId,
                          phaseWindowRules[CHOOSE k \in prs : \A j \in prs : k <= j].allowedPhases)
                 ELSE IF tds # {}
                 THEN LET taskData == tData[CHOOSE k \in tds : \A j \in tds : k <= j]
                          pp == Get(taskData, "PreferredPhases")
                          phases == IF Truthy(pp) THEN parsePhases(pp) ELSE <<>>
                      IN  ConstraintSet(pc, taskId, phases)
                 ELSE ConstraintSet(pc, taskId, <<>>)
         IN  PhaseConstraintsFromUnknownEmpty(tasksInCoRun, i + 1, phaseWindowRules, tData, next)

RECURSIVE PhaseConstraintsFrom(_, _, _, _, _)
PhaseConstraintsFrom(tasksInCoRun, i, phaseWindowRules, tData, pc) ==
    IF i > Len(tasksInCoRun) THEN pc
    ELSE LET taskId == tasksInCoRun[i]
             prs == {k \in 1..Len(phaseWindowRules) : phaseWindowRules[k].taskId = taskId}
             tds == {k \in 1..Len(tData) : Get(tData[k], "TaskID") = Str(taskId)}
             next ==
                 IF prs # {}
                 THEN ConstraintSet(pc, taskId,
                          phaseWindowRules[CHOOSE k \in prs : \A j \in prs : k <= j].allowedPhases)
                 ELSE IF tds # {}
                 THEN LET taskData == tData[CHOOSE k \in tds : \A j \in tds : k <= j]
                          pp == Get(taskData, "PreferredPhases")
                          phases == IF Truthy(pp) THEN parsePhases(pp) ELSE <<>>
                      IN  IF Len(phases) > 0 THEN ConstraintSet(pc, taskId, phases) ELSE pc
                 ELSE pc
         IN  PhaseConstraintsFrom(tasksInCoRun, i + 1, phaseWindowRules, tData, next)

\* phaseArrays.reduce((common, phases) => common.filter(p => phases.includes(p)))
RECURSIVE CommonPhases(_, _, _)
CommonPhases(common, pc, i) ==
    IF i > Len(pc) THEN common
    ELSE CommonPhases(KeepAt(common, {k \in 1..Len(common) : SeqHas(pc[i].phases, common[k])}, 1),
                      pc, i + 1)

\* phases.join(',')
JoinNums(phases) == Join([k \in 1..Len(phases) |-> NumToStr(phases[k])], <<",">>)

MsgConflict == "Conflicting rules: Co-run rule \""

CoRunConflictErrors(coRunRule, phaseWindowRules, tData) ==
    LET phaseConstraints == PhaseConstraintsFrom(coRunRule.tasks, 1, phaseWindowRules, tData, <<>>)
    IN  IF Len(phaseConstraints) > 1
        THEN LET commonPhases == CommonPhases(phaseConstraints[1].phases, phaseConstraints, 2)
                 taskDetails ==
                     Join([k \in 1..Len(phaseConstraints) |->
                              phaseConstraints[k].task \o <<" (phases: ">>
                                  \o JoinNums(phaseConstraints[k].phases) \o <<")">>],
                          <<", ">>)
             IN  IF Len(commonPhases) = 0
                 THEN <<Diag("error",
                             <<MsgConflict>> \o coRunRule.name
                                 \o <<"\" has no common phases available. Tasks: ">>
                                 \o taskDetails,
                             -1, NoField)>>
                 ELSE <<>>
        ELSE <<>>

validateRuleConflicts(rules, tData) ==
    LET coRunRules == EnabledOfType(rules, "coRun")
        phaseWindowRules == EnabledOfType(rules, "phaseWindow")
    IN  Flatten([i \in 1..Len(coRunRules) |->
                    CoRunConflictErrors(coRunRules[i], phaseWindowRules, tData)])

\* ------------------------------------------------------------------------
\* Validator.validateRules
\* ------------------------------------------------------------------------

validateRules(rules, tData) ==
    validateCircularCoRuns(rules) \o validateRuleConflicts(rules, tData)

\* ------------------------------------------------------------------------
\* The engine and its caller
\* ------------------------------------------------------------------------

VARIABLES
    clientData,   \* Validator.clientData
    workerData,   \* Validator.workerData
    taskData,     \* Validator.taskData
    rules,        \* Validator.rules
    op,           \* the entry point or handler called last ("new" after construction)
    argType,      \* the type argument of the last setData / validateData call
    argData,      \* the data argument passed to the last setData / validateData call
    argRules,     \* the rules argument passed to the last setRules / validateRules call
    argsAfter,    \* the data and rules argument objects as the last call left them
    result,       \* the list the last call returned (empty when it returned nothing)
    threw,        \* TRUE iff the last call ended with an uncaught exception
    repeated,     \* TRUE iff the last call is a validateData call with the arguments
                  \* of the call just before it
    kept,         \* the validateData outcome the caller keeps (the errors state of
                  \* the page): [type, data, errors]
    pageRules,    \* the rule list of the page (the rules prop of RulesBuilder)
    form,         \* the rule-creation form state of RulesBuilder
    isProcessingNL, \* RulesBuilder's isProcessingNL flag
    nlPending,    \* the natural-language request in flight: whether there is one
                  \* and the rules prop its handler was called with
    nextId        \* the number of rule ids generateRuleId has handed out, plus 1

builderVars == <<pageRules, form, isProcessingNL, nlPending, nextId>>

engineVars == <<clientData, workerData, taskData, rules, op, argType, argData, argRules,
                argsAfter, result, threw, repeated, kept>>

vars == <<engineVars, builderVars>>

\* the form as useState initialises it and resetForm leaves it
EmptyForm ==
    [activeRuleType |-> "null", selectedTasks |-> <<>>, selectedGroup |-> <<>>,
     minCommonSlots |-> 1, maxSlotsPerPhase |-> 1, selectedTaskId |-> <<>>,
     allowedPhases |-> <<>>, regexPattern |-> <<>>, patternTemplate |-> <<>>]

NoRequest == [active |-> FALSE, rules |-> <<>>]

\* RulesBuilder mounted over an empty rule list
InitBuilder ==
    /\ pageRules = <<>>
    /\ form = EmptyForm
    /\ isProcessingNL = FALSE
    /\ nlPending = NoRequest
    /\ nextId = 1

Kinds == {"clients", "workers", "tasks"}

\* this.<type>Data
Stored(type) ==
    IF type = "clients" THEN clientData
    ELSE IF type = "workers" THEN workerData ELSE taskData

NoKept == [type |-> "none", data |-> <<>>, errors |-> <<>>]

\* new Validator()
Init ==
    /\ clientData = <<>>
    /\ workerData = <<>>
    /\ taskData = <<>>
    /\ rules = <<>>
    /\ op = "new"
    /\ argType = "none"
    /\ argData = <<>>
    /\ argRules = <<>>
    /\ argsAfter = [data |-> <<>>, rules |-> <<>>]
    /\ result = <<>>
    /\ threw = FALSE
    /\ repeated = FALSE
    /\ kept = NoKept
    /\ InitBuilder

\* setData with the break statements missing: each case falls through to the
\* ones below it
SetDataFallsThrough(type, data) ==
    /\ clientData' = IF type = "clients" THEN data ELSE clientData
    /\ workerData' = IF type \in {"clients", "workers"} THEN data ELSE workerData
    /\ taskData' = data
    /\ op' = "setData"
    /\ argType' = type
    /\ argData' = data
    /\ argRules' = <<>>
    /\ argsAfter' = [data |-> data, rules |-> <<>>]
    /\ result' = <<>>
    /\ threw' = FALSE
    /\ repeated' = FALSE
    /\ UNCHANGED <<rules, kept>>
    /\ UNCHANGED builderVars

\* validator.setData(type, data)
SetData(type, data) ==
    /\ clientData' = IF type = "clients" THEN data ELSE clientData
    /\ workerData' = IF type = "workers" THEN data ELSE workerData
    /\ taskData' = IF type = "tasks" THEN data ELSE taskData
    /\ op' = "setData"
    /\ argType' = type
    /\ argData' = data
    /\ argRules' = <<>>
    /\ argsAfter' = [data |-> data, rules |-> <<>>]
    /\ result' = <<>>
    /\ threw' = FALSE
    /\ repeated' = FALSE
    /\ UNCHANGED <<rules, kept>>
    /\ UNCHANGED builderVars

\* validator.setRules(rs)
SetRules(rs) ==
    /\ rules' = rs
    /\ op' = "setRules"
    /\ argType' = "none"
    /\ argData' = <<>>
    /\ argRules' = rs
    /\ argsAfter' = [data |-> <<>>, rules |-> rs]
    /\ result' = <<>>
    /\ threw' = FALSE
    /\ repeated' = FALSE
    /\ UNCHANGED <<clientData, workerData, taskData, kept>>
    /\ UNCHANGED builderVars

\* validateData that also stores the rows it validated, as setData does
ValidateDataStores(type, data) ==
    /\ LET r == validateData(type, data, workerData, taskData)
       IN  /\ result' = r.errors
           /\ threw' = r.threw
    /\ clientData' = IF type = "clients" THEN data ELSE clientData
    /\ workerData' = IF type = "workers" THEN data ELSE workerData
    /\ taskData' = IF type = "tasks" THEN data ELSE taskData
    /\ op' = "validateData"
    /\ argType' = type
    /\ argData' = data
    /\ argRules' = <<>>
    /\ argsAfter' = [data |-> data, rules |-> <<>>]
    /\ repeated' = (op = "validateData" /\ argType = type /\ argData = data)
    /\ UNCHANGED <<rules, kept>>
    /\ UNCHANGED builderVars

\* validator.validateData(type, data)
ValidateData(type, data) ==
    /\ LET r == validateData(type, data, workerData, taskData)
       IN  /\ result' = r.errors
           /\ threw' = r.threw
    /\ op' = "validateData"
    /\ argType' = type
    /\ argData' = data
    /\ argRules' = <<>>
    /\ argsAfter' = [data |-> data, rules |-> <<>>]
    /\ repeated' = (op = "validateData" /\ argType = type /\ argData = data)
    /\ UNCHANGED <<clientData, workerData, taskData, rules, kept>>
    /\ UNCHANGED builderVars

\* validateRules checking the stored rule list in place of its argument
ValidateRulesOfStored(rs) ==
    /\ result' = validateRules(rules, taskData)
    /\ threw' = FALSE
    /\ op' = "validateRules"
    /\ argType' = "none"
    /\ argData' = <<>>
    /\ argRules' = rs
    /\ argsAfter' = [data |-> <<>>, rules |-> rs]
    /\ repeated' = FALSE
    /\ UNCHANGED <<clientData, workerData, taskData, rules, kept>>
    /\ UNCHANGED builderVars

\* validateRules that also stores the list it validated, as setRules does
ValidateRulesStores(rs) ==
    /\ result' = validateRules(rs, taskData)
    /\ threw' = FALSE
    /\ rules' = rs
    /\ op' = "validateRules"
    /\ argType' = "none"
    /\ argData' = <<>>
    /\ argRules' = rs
    /\ argsAfter' = [data |-> <<>>, rules |-> rs]
    /\ repeated' = FALSE
    /\ UNCHANGED <<clientData, workerData, taskData, kept>>
    /\ UNCHANGED builderVars

\* validator.validateRules(rs)
ValidateRules(rs) ==
    /\ result' = validateRules(rs, taskData)
    /\ threw' = FALSE
    /\ op' = "validateRules"
    /\ argType' = "none"
    /\ argData' = <<>>
    /\ argRules' = rs
    /\ argsAfter' = [data |-> <<>>, rules |-> rs]
    /\ repeated' = FALSE
    /\ UNCHANGED <<clientData, workerData, taskData, rules, kept>>
    /\ UNCHANGED builderVars

\* the caller keeps the list validateData returned (runValidation's setErrors)
Keep ==
    /\ op = "validateData"
    /\ ~threw
    /\ kept' = [type |-> argType, data |-> argData, errors |-> result]
    /\ UNCHANGED <<clientData, workerData, taskData, rules, op, argType, argData,
                   argRules, argsAfter, result, threw, repeated>>
    /\ UNCHANGED builderVars

\* ------------------------------------------------------------------------
\* Inputs of the calls
\* ------------------------------------------------------------------------

\* the sequences of at most n elements of a set
SeqsUpTo(S, n) == UNION {[1..k -> S] : k \in 0..n}

T1 == <<"T", "1">>

T2 == <<"T", "2">>

T3 == <<"T", "3">>

T4 == <<"T", "4">>

T5 == <<"T", "5">>

ClientRow(id, priority, requested, attributes) ==
    [ClientID |-> id, ClientName |-> Str(<<"n">>), PriorityLevel |-> priority,
     RequestedTaskIDs |-> requested, GroupTag |-> Str(<<"g">>),
     AttributesJSON |-> attributes]

WorkerRow(id, skills, slots, maxLoad) ==
    [WorkerID |-> id, WorkerName |-> Str(<<"n">>), Skills |-> skills,
     AvailableSlots |-> slots, MaxLoadPerPhase |-> maxLoad,
     WorkerGroup |-> Str(<<"g">>), QualificationLevel |-> Num(1)]

TaskRow(id, duration, skills, phases, maxConcurrent) ==
    [TaskID |-> id, TaskName |-> Str(<<"n">>), Category |-> Str(<<"c">>),
     Duration |-> duration, RequiredSkills |-> skills, PreferredPhases |-> phases,
     MaxConcurrent |-> maxConcurrent]

\* a client requesting the tasks "T1, T9", with an empty JSON object
ClientRefs == ClientRow(Str(<<"C", "1">>), Num(3),
                        Str(<<"T", "1", ",", " ", "T", "9">>), Str(<<"{", "}">>))

\* a client whose AttributesJSON cell holds the number 5
ClientNumAttr == ClientRow(Str(<<"C", "2">>), Num(2), Str(T1), Num(5))

\* one worker with AvailableSlots "[1]"
WorkerSlot1 == WorkerRow(Str(<<"W", "1">>), Str(<<"a">>), Str(<<"[", "1", "]">>), Num(1))

\* one task with Duration 2 and PreferredPhases "1"
TaskSat == TaskRow(Str(T1), Num(2), Str(<<"a">>), Str(<<"1">>), Num(1))

\* T1 with PreferredPhases "1-2", T2 with PreferredPhases "3-4"
Task12 == TaskRow(Str(T1), Num(1), Str(<<"a">>), Str(<<"1", "-", "2">>), Num(1))

Task34 == TaskRow(Str(T2), Num(1), Str(<<"a">>), Str(<<"3", "-", "4">>), Num(1))

\* the row lists of the engine session
SessionRows(type) ==
    IF type = "clients" THEN SeqsUpTo({ClientRefs}, MaxRows)
    ELSE IF type = "workers" THEN SeqsUpTo({WorkerSlot1}, MaxRows)
    ELSE SeqsUpTo({TaskSat}, MaxRows)

RuleT12 == CoRunRule(<<"r", "1">>, <<"Co-run: T1, T2">>, TRUE, <<T1, T2>>)

RuleT23 == CoRunRule(<<"r", "2">>, <<"Co-run: T2, T3">>, TRUE, <<T2, T3>>)

RuleT31 == CoRunRule(<<"r", "3">>, <<"Co-run: T3, T1">>, TRUE, <<T3, T1>>)

\* [CoRun{T1,T2}, CoRun{T2,T3}, CoRun{T3,T1}], all enabled
CycleRules == <<RuleT12, RuleT23, RuleT31>>

\* the rule lists of the engine session
SessionRules == {<<>>, <<RuleT12, RuleT23>>}

\* ------------------------------------------------------------------------
\* The engine session: any call, on small inputs
\* ------------------------------------------------------------------------

Next ==
    \/ \E type \in Kinds : \E data \in SessionRows(type) : SetData(type, data)
    \/ \E rs \in SessionRules : SetRules(rs)
    \/ \E type \in Kinds : \E data \in SessionRows(type) : ValidateData(type, data)
    \/ \E rs \in SessionRules : ValidateRules(rs)

Spec == Init /\ [][Next]_vars

\* ------------------------------------------------------------------------
\* validateRules as a function of its argument and of the task snapshot: the
\* engine holds a task snapshot, the caller has a rule list in hand and
\* validates it
\* ------------------------------------------------------------------------

\* one enabled co-run rule over three tasks
RuleT123 == CoRunRule(<<"r", "4">>, <<"Co-run: T1, T2, T3">>, TRUE, <<T1, T2, T3>>)

\* an enabled co-run rule over tasks no other rule names
RuleT45 == CoRunRule(<<"r", "5">>, <<"Co-run: T4, T5">>, TRUE, <<T4, T5>>)

\* CoRun{T1,T2}, disabled
RuleT12Off == CoRunRule(<<"r", "6">>, <<"Co-run: T1, T2 (off)">>, FALSE, <<T1, T2>>)

\* a co-run rule over the single task T1, as a rule that did not come from
\* the form can be
RuleT1 == CoRunRule(<<"r", "7">>, <<"Co-run: T1">>, TRUE, <<T1>>)

\* T1 restricted to the phases 3 and 4, enabled and disabled, and to the
\* phase 5
WindowT1 ==
    PhaseWindowRule(<<"r", "8">>, <<"Phase window: T1 in phases 3, 4">>, TRUE, T1, <<3, 4>>)

WindowT1Off ==
    PhaseWindowRule(<<"r", "9">>, <<"Phase window: T1 in phases 3, 4 (off)">>, FALSE, T1,
                    <<3, 4>>)

WindowT1Five ==
    PhaseWindowRule(<<"r", "1", "0">>, <<"Phase window: T1 in phases 5">>, TRUE, T1, <<5>>)

\* T2 with the PreferredPhases "x", which parsePhases reads as no phase
TaskNoPhases == TaskRow(Str(T2), Num(1), Str(<<"a">>), Str(<<"x">>), Num(1))

\* co-run rules only
RulePool == {RuleT12, RuleT23, RuleT31, RuleT123, RuleT45, RuleT12Off, RuleT1}

RuleLists == SeqsUpTo(RulePool, MaxRules)

RuleTaskRows == SeqsUpTo({Task12, Task34}, MaxRows)

InitRules ==
    /\ clientData = <<>>
    /\ workerData = <<>>
    /\ taskData \in RuleTaskRows
    /\ rules = <<>>
    /\ op = "new"
    /\ argType = "none"
    /\ argData = <<>>
    /\ argRules \in RuleLists
    /\ argsAfter = [data |-> <<>>, rules |-> argRules]
    /\ result = <<>>
    /\ threw = FALSE
    /\ repeated = FALSE
    /\ kept = NoKept
    /\ InitBuilder

NextRules == ValidateRules(argRules)

SpecRules == InitRules /\ [][NextRules]_vars

\* ------------------------------------------------------------------------
\* validateRules on lists that mix co-run and phase-window rules, enabled and
\* disabled, against task snapshots with and without usable PreferredPhases
\* ------------------------------------------------------------------------

\* T2 restricted to no phase at all, as a rule that did not come from the
\* form can be
WindowT2None ==
    PhaseWindowRule(<<"r", "1", "1">>, <<"Phase window: T2 in phases ">>, TRUE, T2, <<>>)

ConflictPool == {RuleT12, RuleT123, RuleT12Off, WindowT1, WindowT1Off, WindowT1Five,
                 WindowT2None}

ConflictLists == SeqsUpTo(ConflictPool, MaxRules)

ConflictTaskRows == SeqsUpTo({Task12, Task34, TaskNoPhases}, MaxRows)

InitConflicts ==
    /\ clientData = <<>>
    /\ workerData = <<>>
    /\ taskData \in ConflictTaskRows
    /\ rules = <<>>
    /\ op = "new"
    /\ argType = "none"
    /\ argData = <<>>
    /\ argRules \in ConflictLists
    /\ argsAfter = [data |-> <<>>, rules |-> argRules]
    /\ result = <<>>
    /\ threw = FALSE
    /\ repeated = FALSE
    /\ kept = NoKept
    /\ InitBuilder

NextConflicts == ValidateRules(argRules)

SpecConflicts == InitConflicts /\ [][NextConflicts]_vars

\* ------------------------------------------------------------------------
\* Load order: clients are validated, the task snapshot is set, the caller
\* keeps what validateData returned
\* ------------------------------------------------------------------------

NextLoadOrder ==
    \/ \E data \in SeqsUpTo({ClientRefs}, MaxRows) : ValidateData("clients", data)
    \/ \E data \in SeqsUpTo({TaskSat, Task34}, MaxRows) : SetData("tasks", data)
    \/ Keep

SpecLoadOrder == Init /\ [][NextLoadOrder]_vars

\* ------------------------------------------------------------------------
\* validateData as a function of its arguments: the engine holds some
\* snapshots, the caller has a row list in hand and validates it
\* ------------------------------------------------------------------------

\* a row with every required column of its kind
FullRow(type) ==
    IF type = "clients" THEN ClientRefs
    ELSE IF type = "workers" THEN WorkerSlot1 ELSE TaskSat

\* a row with the columns cols only
RowWithKeys(type, cols) == [c \in cols |-> FullRow(type)[c]]

RequiredSet(type) == {requiredColumns[type][i] : i \in 1..Len(requiredColumns[type])}

\* the rows that follow the first row of a list
OtherRows(type) ==
    {FullRow(type), RowWithKeys(type, {}), RowWithKeys(type, {IdField(type)})}
        \cup (IF type = "clients" THEN {ClientNumAttr} ELSE {})

\* row lists whose first row has any subset of the required columns
ColumnInputs(type) ==
    {<<>>} \cup
    {<<RowWithKeys(type, cols)>> \o rest :
        cols \in SUBSET RequiredSet(type), rest \in SeqsUpTo(OtherRows(type), MaxRows - 1)}

\* a row without one of its columns
Without(row, col) == [c \in DOMAIN row \ {col} |-> row[c]]

\* ID cells: the numbers 0 and 1 and the string "1"
IdValues == {Num(0), Num(1), Str(<<"1">>)}

\* full rows that differ in their ID cell only, and one without the ID column
IdRows(type) ==
    {[FullRow(type) EXCEPT ![IdField(type)] = id] : id \in IdValues}
        \cup {Without(FullRow(type), IdField(type))}

\* row lists that vary the ID column only
IdInputs(type) == SeqsUpTo(IdRows(type), MaxIdRows)

\* PriorityLevel cells: 6, 3, 0, "x" and "5.5"
PriorityValues == {Num(6), Num(3), Num(0), Str(<<"x">>), Str(<<"5", ".", "5">>)}

\* the client C1 requesting T1, with an empty JSON object and a given PriorityLevel
ClientPriority(p) == ClientRow(Str(<<"C", "1">>), p, Str(T1), Str(<<"{", "}">>))

\* a second client, C3, with valid cells
ClientOk == ClientRow(Str(<<"C", "3">>), Num(1), Str(T1), Str(<<"{", "}">>))

PriorityRows ==
    {ClientPriority(p) : p \in PriorityValues}
        \cup {Without(ClientPriority(Num(3)), "PriorityLevel")}

\* AvailableSlots cells: 0, "[1]" and "[x]"; MaxLoadPerPhase cells: 1, 2, 0 and "x"
SlotValues == {Num(0), Str(<<"[", "1", "]">>), Str(<<"[", "x", "]">>)}

MaxLoadValues == {Num(1), Num(2), Num(0), Str(<<"x">>)}

\* the worker W1 with given AvailableSlots and MaxLoadPerPhase cells, and
\* without the AvailableSlots column
WorkerFieldRows ==
    {WorkerRow(Str(<<"W", "1">>), Str(<<"a">>), slots, maxLoad) :
        slots \in SlotValues, maxLoad \in MaxLoadValues}
    \cup {Without(WorkerRow(Str(<<"W", "1">>), Str(<<"a">>), Num(0), maxLoad),
                  "AvailableSlots") : maxLoad \in MaxLoadValues}

\* PreferredPhases cells: ranges, lists and malformed values
PhaseValues ==
    {Str(<<"1", "-", "2">>), Str(<<"3", "-", "1">>), Str(<<"0", "-", "2">>),
     Str(<<"1", "-", "2", "-", "3">>), Str(<<"a", "-", "b", "-", "c">>),
     Str(<<"a", "-", "2">>), Str(<<"[", "1", ",", "2", "]">>),
     Str(<<"[", "1", ",", "x", "]">>), Str(<<"x">>)}

\* the task T1 with a given PreferredPhases cell
PhaseRows == {TaskRow(Str(T1), Num(1), Str(<<"a">>), pp, Num(1)) : pp \in PhaseValues}

\* row lists whose cells hold assorted values
ValueInputs(type) ==
    IF type = "clients"
    THEN SeqsUpTo({ClientRefs, ClientNumAttr}, MaxRows)
             \cup SeqsUpTo(PriorityRows \cup {ClientOk, ClientNumAttr}, MaxRows)
    ELSE IF type = "workers"
    THEN SeqsUpTo({WorkerSlot1}, MaxRows) \cup SeqsUpTo(WorkerFieldRows, MaxRows)
    ELSE SeqsUpTo({TaskSat, Task34}, MaxRows) \cup SeqsUpTo(PhaseRows, MaxRows)

ValidateInputs(type) == ColumnInputs(type) \cup ValueInputs(type) \cup IdInputs(type)

InitValidate ==
    /\ clientData = <<>>
    /\ workerData \in {<<>>, <<WorkerSlot1>>}
    /\ taskData \in {<<>>, <<TaskSat>>}
    /\ rules = <<>>
    /\ op = "new"
    /\ argType \in Kinds
    /\ argData \in ValidateInputs(argType)
    /\ argRules = <<>>
    /\ argsAfter = [data |-> argData, rules |-> <<>>]
    /\ result = <<>>
    /\ threw = FALSE
    /\ repeated = FALSE
    /\ kept = NoKept
    /\ InitBuilder

NextValidate == ValidateData(argType, argData)

SpecValidate == InitValidate /\ [][NextValidate]_vars

\* ------------------------------------------------------------------------
\* Properties
\* ------------------------------------------------------------------------

IsCircular(d) == d.message[1] = MsgCircular

IsConflict(d) == d.message[1] = MsgConflict

IsUnknownTasks(d) == d.message[1] = MsgUnknownTasks

IsMissingColumns(d) == d.message[1] = MsgMissingColumns

IsSaturation(d) == \E k \in 1..Len(d.message) : d.message[k] = MsgSaturation

\* the positions of a list whose diagnostic satisfies a test
CircularAt(list) == {i \in 1..Len(list) : IsCircular(list[i])}

UnknownTasksAt(list) == {i \in 1..Len(list) : IsUnknownTasks(list[i])}

MissingColumnsAt(list) == {i \in 1..Len(list) : IsMissingColumns(list[i])}

\* the elements of a sequence
Elems(seq) == {seq[i] : i \in 1..Len(seq)}

\* C1: for the rule list [CoRun{T1,T2}, CoRun{T2,T3}, CoRun{T3,T1}], all
\* enabled, validateRules returns exactly one circular co-run error, whatever
\* the task snapshot.
C1_CycleReportedOnce ==
    (op = "validateRules" /\ argRules = CycleRules)
        => Cardinality(CircularAt(result)) = 1

C1_Witness ==
    /\ op = "validateRules"
    /\ argRules = CycleRules
    /\ taskData # <<>>
    /\ CircularAt(result) # {}

\* C2: with T1 (PreferredPhases "1-2") and T2 (PreferredPhases "3-4") as the
\* stored tasks and the single enabled rule CoRun{T1,T2}, validateRules
\* returns exactly one error, the no-common-phases error naming T1 with
\* phases 1,2 and T2 with phases 3,4.
C2_ConflictReported ==
    (op = "validateRules" /\ argRules = <<RuleT12>> /\ Elems(taskData) = {Task12, Task34})
        => result = <<[type |-> "error",
                       message |-> <<"Conflicting rules: Co-run rule \"", "Co-run: T1, T2",
                                     "\" has no common phases available. Tasks: ",
                                     "T", "1", " (phases: ", "1", ",", "2", ")", ", ",
                                     "T", "2", " (phases: ", "3", ",", "4", ")">>,
                       row |-> -1,
                       field |-> NoField]>>

C2_Witness ==
    /\ op = "validateRules"
    /\ argRules = <<RuleT12>>
    /\ taskData = <<Task12, Task34>>
    /\ Len(result) = 1
    /\ IsConflict(result[1])

\* C3: with one worker with AvailableSlots "[1]" stored, validateData('tasks',
\* rows) for rows = one task with Duration 2 and PreferredPhases "1" reports
\* the dataset-level phase-1 saturation error with demand 2 and capacity 1.
C3_SaturationReported ==
    (op = "validateData" /\ argType = "tasks" /\ argData = <<TaskSat>>
        /\ workerData = <<WorkerSlot1>>)
        => \E i \in 1..Len(result) :
               result[i] = [type |-> "error",
                            message |-> <<"Phase ", "1", " saturation: ", "2",
                                          " task duration > ", "1", " worker slots">>,
                            row |-> -1,
                            field |-> NoField]

\* C4: the outcome of validateData(K, rows) is the same whatever snapshot is
\* stored for kind K itself.
C4_OwnSnapshotIrrelevant ==
    op = "validateData"
        => \A other \in SessionRows(argType) :
               validateData(argType, argData,
                            IF argType = "workers" THEN other ELSE workerData,
                            IF argType = "tasks" THEN other ELSE taskData)
                   = [errors |-> result, threw |-> threw]

\* the trimmed, non-empty tokens of a client row's RequestedTaskIDs that are
\* the TaskID of no row of tData
UnknownTokens(row, tData) ==
    LET toks == Split(ToStr(Get(row, "RequestedTaskIDs")), ",")
    IN  {Trim(toks[k]) : k \in 1..Len(toks)}
            \ ({<<>>} \cup {ToStr(Get(tData[j], "TaskID")) :
                               j \in {j \in 1..Len(tData) : Get(tData[j], "TaskID").t = "str"}})

\* C5: a validateData('clients', rows) call made while the task snapshot is
\* empty returns no unknown-task-reference diagnostic; a later setData does
\* not change the list the caller kept; unknown references are reported only
\* by a validateData('clients', rows) call made with a non-empty task
\* snapshot, for rows that hold a token unknown to that snapshot.
C5_LoadOrder ==
    [][/\ (op' = "validateData" /\ argType' = "clients" /\ taskData = <<>>)
              => UnknownTasksAt(result') = {}
       /\ op' = "setData" => kept' = kept
       /\ \A i \in UnknownTasksAt(result') :
              /\ op' = "validateData"
              /\ argType' = "clients"
              /\ taskData # <<>>
              /\ result'[i].row \in 0..(Len(argData') - 1)
              /\ UnknownTokens(argData'[result'[i].row + 1], taskData) # {}]_vars

C5_Witness ==
    /\ kept.type = "clients"
    /\ UnknownTasksAt(kept.errors) = {}
    /\ op = "validateData"
    /\ argType = "clients"
    /\ argData = kept.data
    /\ taskData # <<>>
    /\ UnknownTasksAt(result) # {}

\* C6: validateData never throws.
C6_NeverThrows == ~threw

\* C7: two validateData calls in a row with the same type and the same rows
\* have the same outcome.
C7_Idempotent ==
    [][(op = "validateData" /\ op' = "validateData"
            /\ argType' = argType /\ argData' = argData)
          => (result' = result /\ threw' = threw)]_vars

C7_Witness ==
    /\ repeated
    /\ argType = "tasks"
    /\ workerData # <<>>
    /\ result # <<>>

\* C8: validateData and validateRules leave the three snapshots and the
\* stored rule list as they were, and their arguments as they were passed.
C8_ValidatorsChangeNothing ==
    [][op' \in {"validateData", "validateRules"}
          => /\ clientData' = clientData
             /\ workerData' = workerData
             /\ taskData' = taskData
             /\ rules' = rules
             /\ argsAfter'.data = argData'
             /\ argsAfter'.rules = argRules']_vars

C8_Witness ==
    /\ op = "validateRules"
    /\ argRules # rules
    /\ rules # <<>>
    /\ taskData # <<>>

\* C9: setData(type, data) makes data the snapshot of that type and leaves
\* the two other snapshots and the rule list alone; setRules(rs) makes rs the
\* rule list and leaves the three snapshots alone.
C9_SettersReplaceOne ==
    [][/\ op' = "setData"
            => /\ clientData' = IF argType' = "clients" THEN argData' ELSE clientData
               /\ workerData' = IF argType' = "workers" THEN argData' ELSE workerData
               /\ taskData' = IF argType' = "tasks" THEN argData' ELSE taskData
               /\ rules' = rules
       /\ op' = "setRules"
            => /\ rules' = argRules'
               /\ clientData' = clientData
               /\ workerData' = workerData
               /\ taskData' = taskData]_vars

C9_Witness ==
    /\ op = "setData"
    /\ argType = "clients"
    /\ clientData = argData
    /\ clientData # <<>>
    /\ workerData # <<>>
    /\ workerData # clientData
    /\ taskData # <<>>
    /\ rules # <<>>

\* the column names a missing-columns message lists
ListedColumns(d) == {d.message[k] : k \in 2..Len(d.message)} \ {", "}

\* C10: for a non-empty row list whose first row lacks a required column,
\* validateData returns exactly one missing-columns diagnostic, with row -1,
\* listing exactly the required columns the first row lacks; for an empty row
\* list it returns none.
C10_MissingColumnsListed ==
    op = "validateData"
        => IF argData = <<>> THEN MissingColumnsAt(result) = {}
           ELSE LET missing == RequiredSet(argType) \ DOMAIN argData[1]
                IN  missing # {}
                        => /\ Cardinality(MissingColumnsAt(result)) = 1
                           /\ \A i \in MissingColumnsAt(result) :
                                  /\ result[i].row = -1
                                  /\ result[i].type = "error"
                                  /\ ListedColumns(result[i]) = missing
                                  /\ Len(result[i].message) = 2 * Cardinality(missing)

\* the diagnostics of the duplicate/missing-ID check
IsMissingId(d) == d.message[1] = "Missing "

IsDuplicateId(d) == d.message[1] = "Duplicate "

\* the ID cell of the i-th row of the validated list
IdOf(i) == Get(argData[i], IdField(argType))

\* a number, or a non-empty string of digits
IsNumericId(v) ==
    \/ v.t = "num"
    \/ v.t = "str" /\ v.s # <<>> /\ \A k \in 1..Len(v.s) : IsDigit(v.s[k])

\* C11: when every row's ID is a well-formed numeric value (the number 0
\* included) and no two rows have the same ID, validateData returns no
\* missing-ID and no duplicate-ID diagnostic.
C11_NumericIdsClean ==
    (/\ op = "validateData"
     /\ \A i \in 1..Len(argData) : IsNumericId(IdOf(i))
     /\ \A i, j \in 1..Len(argData) : i < j => ToStr(IdOf(i)) # ToStr(IdOf(j)))
        => \A k \in 1..Len(result) : ~IsMissingId(result[k]) /\ ~IsDuplicateId(result[k])

\* the positions of the returned list that hold a diagnostic of row i (the
\* i-th row of the list, whose index is i - 1) on the field named
FieldDiagsAt(i, field) ==
    {k \in 1..Len(result) : result[k].row = i - 1 /\ result[k].field = field}

RowDiagsAt(i) == {k \in 1..Len(result) : result[k].row = i - 1}

\* C12: a client row with PriorityLevel 6 and otherwise valid cells gets
\* exactly one diagnostic, the PriorityLevel error whose message holds 6 and
\* the range 1-5; any client row gets a PriorityLevel error exactly when its
\* parsed PriorityLevel is not an integer in 1..5.
C12_PriorityLevelChecked ==
    (op = "validateData" /\ argType = "clients")
        => \A i \in 1..Len(argData) :
               LET priority == parseInt(Get(argData[i], "PriorityLevel"))
               IN  /\ (FieldDiagsAt(i, "PriorityLevel") # {})
                          <=> (isNaN(priority) \/ priority.v < 1 \/ priority.v > 5)
                   /\ Cardinality(FieldDiagsAt(i, "PriorityLevel")) <= 1
                   /\ (/\ argData[i] = ClientPriority(Num(6))
                       /\ \A j \in 1..(i - 1) : IdOf(j) # IdOf(i))
                          => /\ Cardinality(RowDiagsAt(i)) = 1
                             /\ \A k \in RowDiagsAt(i) :
                                    result[k] =
                                        [type |-> "error",
                                         message |-> <<"PriorityLevel must be between 1-5, got: ",
                                                       "6">>,
                                         row |-> i - 1,
                                         field |-> "PriorityLevel"]

\* the positions of the returned list that hold a missing-ID or duplicate-ID
\* diagnostic of row i
IdDiagsAt(i) ==
    {k \in RowDiagsAt(i) : IsMissingId(result[k]) \/ IsDuplicateId(result[k])}

\* the first row of the validated list that has the ID of row i
FirstWithId(i) == CHOOSE j \in 1..i : IdOf(j) = IdOf(i) /\ \A h \in 1..(j - 1) : IdOf(h) # IdOf(i)

\* C19: in a call that returns, a row without an ID gets exactly one ID
\* diagnostic, the missing-ID error at its own index; a row whose ID is that
\* of an earlier row gets exactly one, the duplicate-ID error at its own
\* index naming the row of the first occurrence; the first row with an ID
\* gets no duplicate-ID error.
C19_IdErrorsPerRow ==
    (op = "validateData" /\ ~threw)
        => \A i \in 1..Len(argData) :
               IF IdOf(i).t = "undef" \/ IdOf(i) = Str(<<>>)
               THEN /\ Cardinality(IdDiagsAt(i)) = 1
                    /\ \A k \in IdDiagsAt(i) : IsMissingId(result[k])
               ELSE IF FirstWithId(i) < i
               THEN /\ Cardinality(IdDiagsAt(i)) = 1
                    /\ \A k \in IdDiagsAt(i) :
                           result[k].message =
                               <<"Duplicate ", IdField(argType), ": ">> \o ToStr(IdOf(i))
                                   \o <<" (also in row ">> \o NumToStr(FirstWithId(i))
                                   \o <<")">>
               ELSE \A k \in IdDiagsAt(i) : ~IsDuplicateId(result[k])

\* an AvailableSlots cell the worker check takes as missing: no cell, the
\* empty string, or the number 0
IsMissingSlots(v) == v.t = "undef" \/ v = Str(<<>>) \/ v = Num(0)

\* the positions of the returned list that hold a diagnostic of the worker
\* field checks for row i
WorkerFieldDiagsAt(i) ==
    {k \in RowDiagsAt(i) :
        \/ result[k].field \in {"AvailableSlots", "MaxLoadPerPhase"}
        \/ result[k].message[1] = "Worker overloaded: "}

EnabledOnly(rs) == KeepAt(rs, {i \in 1..Len(rs) : rs[i].enabled}, 1)

\* C13: validateRules returns for a rule list what it returns for the list
\* with its disabled rules removed: a disabled PhaseWindow rule overrides no
\* PreferredPhases and a disabled CoRun rule adds no edge.
C13_DisabledExcluded ==
    op = "validateRules" => result = validateRules(EnabledOnly(argRules), taskData)

\* one enabled co-run rule next to its disabled copy and a disabled window
\* on T1: no circular error, and the conflict of T1 "1-2" with T2 "3-4" stays
C13_Witness ==
    /\ op = "validateRules"
    /\ argRules = <<RuleT12, RuleT12Off, WindowT1Off>>
    /\ taskData = <<Task12, Task34>>
    /\ Len(result) = 1
    /\ IsConflict(result[1])

\* the positions of a rule list that hold an enabled co-run rule
EnabledCoRunAt(rs) == {i \in 1..Len(rs) : rs[i].type = "coRun" /\ rs[i].enabled}

\* an enabled co-run rule with at least 3 tasks, or two enabled co-run rules
\* that share at least 2 tasks
HasTrivialCycle(rs) ==
    \/ \E i \in EnabledCoRunAt(rs) : Cardinality(Elems(rs[i].tasks)) >= 3
    \/ \E i, j \in EnabledCoRunAt(rs) :
           i < j /\ Cardinality(Elems(rs[i].tasks) \cap Elems(rs[j].tasks)) >= 2

\* C14 as stated: a rule list with an enabled co-run rule of at least 3 tasks,
\* or with two enabled co-run rules sharing at least 2 tasks, gets the
\* circular co-run error.
C14_TrivialCycleReported ==
    (op = "validateRules" /\ HasTrivialCycle(argRules)) => CircularAt(result) # {}

\* C14, amended: such a rule list gets the circular co-run error when it
\* holds at least two enabled co-run rules.
C14_TrivialCycleAmongTwo ==
    (op = "validateRules" /\ HasTrivialCycle(argRules)
        /\ Cardinality(EnabledCoRunAt(argRules)) >= 2)
        => CircularAt(result) # {}

\* the three-task rule next to a rule it shares no task with
C14_Witness ==
    /\ op = "validateRules"
    /\ argRules = <<RuleT123, RuleT45>>
    /\ CircularAt(result) # {}

\* C15: validateRules returns at most one circular co-run error, also when
\* the co-run graph has several components with a cycle each.
C15_AtMostOneCircular ==
    op = "validateRules" => Cardinality(CircularAt(result)) <= 1

\* two rules over disjoint task pairs, each a component the search takes for
\* a cycle
C15_Witness ==
    /\ op = "validateRules"
    /\ argRules = <<RuleT12, RuleT45>>
    /\ Cardinality(CircularAt(result)) = 1

\* the node found on recStack by the first search of the loop that finds a
\* cycle (<<>> when none does)
RECURSIVE RevisitedFrom(_, _, _)
RevisitedFrom(graph, i, st) ==
    IF i > Len(graph) THEN <<>>
    ELSE IF graph[i].node \in st.visited THEN RevisitedFrom(graph, i + 1, st)
    ELSE LET r == hasCycle(graph, graph[i].node, st)
         IN  IF r.cycle THEN r.hit ELSE RevisitedFrom(graph, i + 1, r)

RevisitedTask(rs) == RevisitedFrom(BuildGraph(<<>>, EnabledOnly(rs), 1), 1, NoSearch)

\* the tasks of the enabled co-run rules, in the order the rules name them
CoRunTasks(rs) ==
    Flatten([i \in 1..Len(rs) |->
                IF i \in EnabledCoRunAt(rs) THEN rs[i].tasks ELSE <<>>])

\* a task that some enabled co-run rule names together with another task
IsPaired(rs, t) ==
    \E i \in EnabledCoRunAt(rs) : t \in Elems(rs[i].tasks) /\ Elems(rs[i].tasks) # {t}

\* the first task, in the order the rules name them, that is paired
FirstPairedTask(rs) ==
    LET ts == CoRunTasks(rs)
    IN  ts[CHOOSE k \in 1..Len(ts) :
               IsPaired(rs, ts[k]) /\ \A h \in 1..(k - 1) : ~IsPaired(rs, ts[h])]

CircularMessage(task) ==
    <<MsgCircular>> \o task \o <<". This creates impossible scheduling constraints.">>

\* C16 as stated: the circular co-run error names the task the search found
\* on the recursion stack.
C16_NamesRevisitedTask ==
    op = "validateRules"
        => \A k \in CircularAt(result) :
               result[k].message = CircularMessage(RevisitedTask(argRules))

\* C16, amended: the circular co-run error names the task the successful
\* search was started from, which is the first task, in the order the
\* enabled co-run rules name them, that a rule names together with another
\* task; it is the task found on the recursion stack when every enabled
\* co-run rule names at least two different tasks.
C16_NamesSearchStart ==
    op = "validateRules"
        => \A k \in CircularAt(result) :
               /\ result[k].message = CircularMessage(FirstPairedTask(argRules))
               /\ (\A i \in EnabledCoRunAt(argRules) :
                       Cardinality(Elems(argRules[i].tasks)) >= 2)
                      => RevisitedTask(argRules) = FirstPairedTask(argRules)

\* the search starts at T1, goes to T2, then to T3, and finds T2 on the stack
C16_Witness ==
    /\ op = "validateRules"
    /\ argRules = <<RuleT1, RuleT23, RuleT12>>
    /\ RevisitedTask(argRules) = T2
    /\ \E k \in CircularAt(result) : result[k].message = CircularMessage(T1)

ConflictAt(list) == {i \in 1..Len(list) : IsConflict(list[i])}

\* the least element of a non-empty set of positions
First(S) == CHOOSE k \in S : \A j \in S : k <= j

\* the positions of a rule list that hold an enabled phase-window rule for task t
WindowsFor(rs, t) ==
    {k \in 1..Len(rs) : rs[k].type = "phaseWindow" /\ rs[k].enabled /\ rs[k].taskId = t}

\* the phases the first stored row of task t gives (none when there is no
\* such row, or no PreferredPhases in it, or the cell parses to nothing)
StoredPhases(tData, t) ==
    LET rows == {k \in 1..Len(tData) : Get(tData[k], "TaskID") = Str(t)}
    IN  IF rows = {} THEN <<>>
        ELSE LET pp == Get(tData[First(rows)], "PreferredPhases")
             IN  IF Truthy(pp) THEN parsePhases(pp) ELSE <<>>

\* a task has a determined phase set when an enabled phase-window rule
\* targets it or its stored PreferredPhases give at least one phase
IsDetermined(rs, tData, t) == WindowsFor(rs, t) # {} \/ StoredPhases(tData, t) # <<>>

\* the allowedPhases of the first enabled phase-window rule for the task when
\* there is one, the stored PreferredPhases otherwise
EffectivePhases(rs, tData, t) ==
    IF WindowsFor(rs, t) # {} THEN rs[First(WindowsFor(rs, t))].allowedPhases
    ELSE StoredPhases(tData, t)

\* the determined tasks of a co-run rule, each once, in the order the rule
\* names them
DeterminedTasks(rs, tData, c) ==
    KeepAt(c.tasks,
           {k \in 1..Len(c.tasks) :
               /\ IsDetermined(rs, tData, c.tasks[k])
               /\ \A h \in 1..(k - 1) : c.tasks[h] # c.tasks[k]},
           1)

\* the conflict message of a co-run rule, listing its determined tasks with
\* their effective phases
ExpectedConflict(rs, tData, c) ==
    LET dt == DeterminedTasks(rs, tData, c)
    IN  <<MsgConflict>> \o c.name \o <<"\" has no common phases available. Tasks: ">>
            \o Join([k \in 1..Len(dt) |->
                        dt[k] \o <<" (phases: ">>
                            \o JoinNums(EffectivePhases(rs, tData, dt[k])) \o <<")">>],
                    <<", ">>)

\* C17: for every task of an enabled CoRun rule, the phase set the conflict
\* check works with is the allowedPhases of the first enabled PhaseWindow
\* rule for that task when there is one, whatever the stored PreferredPhases,
\* and the stored PreferredPhases only when there is none; every conflict
\* error lists the tasks with these phase sets.
C17_WindowBeforePreferred ==
    op = "validateRules"
        => /\ \A i \in EnabledCoRunAt(argRules) :
                  LET dt == DeterminedTasks(argRules, taskData, argRules[i])
                  IN  PhaseConstraintsFrom(argRules[i].tasks, 1,
                                           EnabledOfType(argRules, "phaseWindow"),
                                           taskData, <<>>)
                          = [k \in 1..Len(dt) |->
                                [task |-> dt[k],
                                 phases |-> EffectivePhases(argRules, taskData, dt[k])]]
           /\ \A k \in ConflictAt(result) :
                  \E i \in EnabledCoRunAt(argRules) :
                      result[k].message = ExpectedConflict(argRules, taskData, argRules[i])

\* T1 is stored with "1-2" and has the enabled window 5: the conflict with
\* T2 "3-4" lists T1 with phase 5
C17_Witness ==
    /\ op = "validateRules"
    /\ argRules = <<WindowT1Five, RuleT12>>
    /\ taskData = <<Task12, Task34>>
    /\ Len(result) = 1
    /\ result[1].message =
           <<"Conflicting rules: Co-run rule \"", "Co-run: T1, T2",
             "\" has no common phases available. Tasks: ",
             "T", "1", " (phases: ", "5", ")", ", ",
             "T", "2", " (phases: ", "3", ",", "4", ")">>

\* at least two tasks of the rule have a determined phase set and no phase
\* is in all the determined sets
NoCommonPhase(rs, tData, c) ==
    LET dt == Elems(DeterminedTasks(rs, tData, c))
    IN  /\ Cardinality(dt) >= 2
        /\ ~\E p \in UNION {Elems(EffectivePhases(rs, tData, t)) : t \in dt} :
               \A t \in dt : p \in Elems(EffectivePhases(rs, tData, t))

\* C18: validateRules returns one conflict error for each enabled CoRun rule
\* of which at least two tasks have a determined phase set and the determined
\* sets have no phase in common, in the order of the rules, and no other
\* conflict error; tasks without a determined phase set do not count.
C18_ConflictExactlyWhen ==
    op = "validateRules"
        => LET conflicts == KeepAt(result, ConflictAt(result), 1)
               expected ==
                   KeepAt(argRules,
                          {i \in EnabledCoRunAt(argRules) :
                              NoCommonPhase(argRules, taskData, argRules[i])},
                          1)
           IN  /\ Len(conflicts) = Len(expected)
               /\ \A k \in 1..Len(conflicts) : conflicts[k].message[2] = expected[k].name[1]

\* CoRun{T1,T2,T3} with T1 "1-2" and T2 "3-4" stored and nothing known of T3:
\* the conflict of T1 and T2 is reported
C18_Witness ==
    /\ op = "validateRules"
    /\ argRules = <<RuleT123>>
    /\ taskData = <<Task12, Task34>>
    /\ ~IsDetermined(argRules, taskData, T3)
    /\ Len(result) = 1
    /\ IsConflict(result[1])

\* a PreferredPhases text that the phase-spec grammar rejects: with a hyphen
\* and no leading "[", anything but two numeric parts start-end with
\* 1 <= start <= end; otherwise a list with a non-numeric token
IsMalformedPhases(s) ==
    IF Includes(s, "-") /\ ~StartsWith(s, "[")
    THEN LET parts == Split(s, "-")
         IN  \/ Len(parts) # 2
             \/ LET start == parseIntStr(Trim(parts[1]))
                    end == parseIntStr(Trim(parts[2]))
                IN  isNaN(start) \/ isNaN(end) \/ start.v < 1 \/ end.v < start.v
    ELSE LET inner == IF StartsWith(s, "[") /\ EndsWith(s, "]")
                      THEN SubSeq(s, 2, Len(s) - 1) ELSE s
             toks == Split(inner, ",")
         IN  inner # <<>> /\ \E k \in 1..Len(toks) : isNaN(parseIntStr(Trim(toks[k])))

\* C21: validateData('tasks', rows) returns a 'Malformed list in
\* PreferredPhases' error for every row whose PreferredPhases is present and
\* malformed under the phase-spec grammar, values with more than one hyphen
\* such as "1-2-3" included.
C21_MalformedPhasesReported ==
    (op = "validateData" /\ argType = "tasks")
        => \A i \in 1..Len(argData) :
               LET pp == Get(argData[i], "PreferredPhases")
               IN  (pp.t = "str" /\ pp.s # <<>> /\ IsMalformedPhases(Trim(pp.s)))
                       => \E k \in FieldDiagsAt(i, "PreferredPhases") :
                              result[k].message = <<"Malformed list in PreferredPhases">>

\* ------------------------------------------------------------------------
\* The cross checks as functions of the stored snapshots: the engine holds a
\* worker and a task snapshot, the caller validates a row list against them
\* ------------------------------------------------------------------------

\* the worker W1 with given Skills and AvailableSlots
WorkerWith(skills, slots) == WorkerRow(Str(<<"W", "1">>), skills, slots, Num(1))

\* workers offering "[1]", "[1,1]" (phase 1 listed twice) and "[1,2]"
SatWorkers ==
    {WorkerSlot1,
     WorkerWith(Str(<<"a">>), Str(<<"[", "1", ",", "1", "]">>)),
     WorkerWith(Str(<<"a">>), Str(<<"[", "1", ",", "2", "]">>))}

\* the task T2 of Duration 1 with given PreferredPhases text
TaskPhases(s) == TaskRow(Str(T2), Num(1), Str(<<"a">>), Str(s), Num(1))

\* tasks of Duration 2 in "1", Duration 1 in "1-2", Duration 1 in "[2,2]"
\* (phase 2 listed twice), in "[0,2]", in the reversed range "2-1" and in
\* "[]"
SatTasks ==
    {TaskSat, Task12, TaskPhases(<<"[", "2", ",", "2", "]">>),
     TaskPhases(<<"[", "0", ",", "2", "]">>), TaskPhases(<<"2", "-", "1">>),
     TaskPhases(<<"[", "]">>)}

\* the stored workers are validated against the stored tasks
InitSaturation ==
    /\ workerData \in SeqsUpTo(SatWorkers, MaxRows) \ {<<>>}
    /\ taskData \in SeqsUpTo(SatTasks, MaxRows) \ {<<>>}
    /\ argType = "workers"
    /\ argData = workerData

\* the task T1 stored with the numeric TaskID 1
TaskNum1 == TaskRow(Num(1), Num(1), Str(<<"a">>), Str(<<"1">>), Num(1))

\* the client C1 requesting the given tasks
ClientAsking(requested) == ClientRow(Str(<<"C", "1">>), Num(3), requested, Str(<<"{", "}">>))

\* clients requesting "T1, T9", "T1", "T9,T8" and "1", and the client whose
\* AttributesJSON is a number
RefClients ==
    {ClientRefs, ClientAsking(Str(T1)),
     ClientAsking(Str(<<"T", "9", ",", "T", "8">>)), ClientAsking(Str(<<"1">>)),
     ClientNumAttr}

\* client rows are validated against a non-empty task snapshot
InitClientRefs ==
    /\ workerData = <<>>
    /\ taskData \in SeqsUpTo({TaskSat, Task34, TaskNum1}, MaxRows) \ {<<>>}
    /\ argType = "clients"
    /\ argData \in SeqsUpTo(RefClients, MaxRows)

\* workers with the Skills "a" and "A, b"
SkillWorkers ==
    {WorkerSlot1, WorkerWith(Str(<<"A", ",", " ", "b">>), Str(<<"[", "1", "]">>))}

\* the task T1 with given RequiredSkills and MaxConcurrent
TaskNeeding(skills, maxConcurrent) ==
    TaskRow(Str(T1), Num(1), skills, Str(<<"1">>), maxConcurrent)

\* a task with Duration 0 and PreferredPhases "x" that requires "d" twice at
\* a time: two field errors, a skill error and a concurrency warning
TaskAllWrong == TaskRow(Str(T2), Num(0), Str(<<"d">>), Str(<<"x">>), Num(2))

\* tasks requiring "a" of MaxConcurrent 1 or 2, "a,B" of MaxConcurrent 2 and
\* "d" of MaxConcurrent 1, a task whose MaxConcurrent cell is "3x", a task
\* wrong in every check and a task without the Category column
SkillTasks ==
    {TaskNeeding(Str(<<"a">>), Num(1)), TaskNeeding(Str(<<"a">>), Num(2)),
     TaskNeeding(Str(<<"a", ",", "B">>), Num(2)), TaskNeeding(Str(<<"d">>), Num(1)),
     TaskNeeding(Str(<<"a">>), Str(<<"3", "x">>)), TaskAllWrong,
     Without(TaskAllWrong, "Category")}

\* task rows are validated against a non-empty worker snapshot
InitTaskRefs ==
    /\ workerData \in SeqsUpTo(SkillWorkers, MaxRows) \ {<<>>}
    /\ taskData = <<>>
    /\ argType = "tasks"
    /\ argData \in SeqsUpTo(SkillTasks, MaxRows)

InitCross ==
    /\ InitSaturation \/ InitClientRefs \/ InitTaskRefs
    /\ clientData = <<>>
    /\ rules = <<>>
    /\ op = "new"
    /\ argRules = <<>>
    /\ argsAfter = [data |-> argData, rules |-> <<>>]
    /\ result = <<>>
    /\ threw = FALSE
    /\ repeated = FALSE
    /\ kept = NoKept
    /\ InitBuilder

NextCross == ValidateData(argType, argData)

SpecCross == InitCross /\ [][NextCross]_vars

\* the phases a saturation check has to look at
SatPhases == 0..2

\* the number of workers whose AvailableSlots include phase p
WorkersOffering(wData, p) ==
    Cardinality({i \in 1..Len(wData) :
                    p \in Elems(SaturationSlots(Get(wData[i], "AvailableSlots")))})

\* the sum of Duration over the tasks from position i on whose
\* PreferredPhases include phase p
RECURSIVE DurationPreferring(_, _, _)
DurationPreferring(tData, i, p) ==
    IF i > Len(tData) THEN 0
    ELSE (IF p \in Elems(parsePhases(Get(tData[i], "PreferredPhases")))
          THEN Get(tData[i], "Duration").n ELSE 0)
             + DurationPreferring(tData, i + 1, p)

SaturationMessage(p, demand, capacity) ==
    <<"Phase ">> \o NumToStr(p) \o <<MsgSaturation>> \o NumToStr(demand)
        \o <<" task duration > ">> \o NumToStr(capacity) \o <<" worker slots">>

\* the saturation errors of a list that name phase p
SaturationOf(list, p) ==
    {k \in 1..Len(list) :
        IsSaturation(list[k]) /\ SubSeq(list[k].message, 1, 3)
                                     = <<"Phase ">> \o NumToStr(p) \o <<MsgSaturation>>}

\* C22: with capacity[p] the number of workers whose AvailableSlots include
\* phase p (a worker listing p twice counts once) and demand[p] the sum of
\* Duration over the tasks whose PreferredPhases include p (each task once
\* per phase), the saturation check emits exactly one dataset-level error
\* for each positive phase p with demand[p] > capacity[p], stating these two
\* numbers, and none for any other phase.
C22_SaturationCounts ==
    (op = "validateData" /\ argType = "workers")
        => \A p \in SatPhases :
               LET capacity == WorkersOffering(workerData, p)
                   demand == DurationPreferring(taskData, 1, p)
                   errs == SaturationOf(result, p)
               IN  IF p > 0 /\ demand > capacity
                   THEN /\ Cardinality(errs) = 1
                        /\ \A k \in errs :
                               /\ result[k].message = SaturationMessage(p, demand, capacity)
                               /\ result[k].row = -1
                   ELSE errs = {}

\* the trimmed, non-empty tokens of a client row's RequestedTaskIDs
RequestedTokens(row) ==
    LET toks == Split(ToStr(Get(row, "RequestedTaskIDs")), ",")
    IN  {Trim(toks[k]) : k \in 1..Len(toks)} \ {<<>>}

\* the TaskIDs of a task snapshot, as written
TaskIdsOf(tData) == {ToStr(Get(tData[j], "TaskID")) : j \in 1..Len(tData)}

\* the tokens an unknown-task-reference error names
NamedTokens(d) == Elems(Split(Tail(d.message), ", "))

\* C23: with a non-empty task snapshot stored, validateData('clients', rows)
\* returns for each client row exactly one RequestedTaskIDs error if at
\* least one of its trimmed, non-empty tokens is not a TaskID of the stored
\* snapshot, and that error names all and only the unknown tokens of the row;
\* a row whose tokens are all known gets no reference error.
C23_UnknownTokensNamed ==
    (op = "validateData" /\ argType = "clients" /\ taskData # <<>>)
        => \A i \in 1..Len(argData) :
               LET unknown == RequestedTokens(argData[i]) \ TaskIdsOf(taskData)
                   errs == FieldDiagsAt(i, "RequestedTaskIDs")
               IN  IF unknown # {}
                   THEN /\ Cardinality(errs) = 1
                        /\ \A k \in errs : /\ IsUnknownTasks(result[k])
                                           /\ NamedTokens(result[k]) = unknown
                   ELSE errs = {}

\* the case-folded skill set of a Skills or RequiredSkills cell
SkillSet(v) == Elems(LowerTokens(v))

\* the MaxConcurrent warnings of result for the row at position i
ConcurrencyWarningsAt(i) ==
    {k \in FieldDiagsAt(i, "MaxConcurrent") : result[k].type = "warning"}

\* C24: with a non-empty worker snapshot stored, validateData('tasks', rows)
\* returns a MaxConcurrent warning for a task row with MaxConcurrent and
\* RequiredSkills present exactly when the number of stored workers whose
\* case-folded skill set is a superset of the task's case-folded
\* required-skill set is less than the parsed MaxConcurrent; the warning
\* states both numbers.
C24_ConcurrencyFeasible ==
    (op = "validateData" /\ argType = "tasks" /\ workerData # <<>>)
        => \A i \in 1..Len(argData) :
               LET mc == Get(argData[i], "MaxConcurrent")
                   rs == Get(argData[i], "RequiredSkills")
                   qualified ==
                       Cardinality({w \in 1..Len(workerData) :
                                       SkillSet(rs) \subseteq
                                           SkillSet(Get(workerData[w], "Skills"))})
                   maxConcurrent == parseInt(mc)
                   warnings == ConcurrencyWarningsAt(i)
               IN  (Truthy(mc) /\ Truthy(rs))
                       => IF ~isNaN(maxConcurrent) /\ qualified < maxConcurrent.v
                          THEN /\ Cardinality(warnings) = 1
                               /\ \A k \in warnings :
                                      result[k].message =
                                          <<"MaxConcurrent (">> \o NumToStr(maxConcurrent.v)
                                              \o <<") exceeds qualified workers (">>
                                              \o NumToStr(qualified) \o <<")">>
                          ELSE warnings = {}

\* the task needs "a,B" twice at a time and the one worker has "A, b"
C24_Witness ==
    /\ op = "validateData"
    /\ argType = "tasks"
    /\ Len(workerData) = 1
    /\ Get(workerData[1], "Skills") = Str(<<"A", ",", " ", "b">>)
    /\ argData = <<TaskNeeding(Str(<<"a", ",", "B">>), Num(2))>>
    /\ \E k \in ConcurrencyWarningsAt(1) :
           result[k].message = <<"MaxConcurrent (", "2", ") exceeds qualified workers (",
                                 "1", ")">>

\* the check a diagnostic comes from, numbered in the order validateData
\* runs the checks: required columns, duplicate/missing ID, the field checks
\* of the kind's row validator, the cross-reference checks, saturation
CheckOf(d) ==
    CASE IsMissingColumns(d) -> 1
      [] IsMissingId(d) \/ IsDuplicateId(d) -> 2
      [] IsSaturation(d) -> 9
      [] d.field \in {"RequestedTaskIDs", "RequiredSkills"} -> 7
      [] d.field = "MaxConcurrent" /\ d.type = "warning" -> 8
      [] d.field \in {"PriorityLevel", "Duration"} -> 3
      [] d.message = <<"AvailableSlots is required">> -> 3
      [] d.field \in {"MaxLoadPerPhase", "PreferredPhases"} -> 5
      [] OTHER -> 4

\* the pass of validateData a check belongs to: required columns, ID check,
\* row validator, cross references, saturation
PassOf(d) ==
    LET c == CheckOf(d)
    IN  IF c <= 2 THEN c ELSE IF c <= 5 THEN 3 ELSE IF c <= 8 THEN 4 ELSE 5

\* C25 as stated: the list validateData returns is ordered by check first and
\* by row second: the diagnostics of an earlier check (each field check and
\* each cross-reference check counted on its own) precede those of a later
\* check, and within one check the row index does not decrease.
C25_OrderedByCheckThenRow ==
    (op = "validateData" /\ ~threw)
        => \A j, k \in 1..Len(result) :
               j < k => \/ CheckOf(result[j]) < CheckOf(result[k])
                        \/ /\ CheckOf(result[j]) = CheckOf(result[k])
                           /\ result[j].row <= result[k].row

\* C25, amended: the list is ordered by pass first (required columns, ID
\* check, row validator, cross references, saturation), by row second and by
\* check third: the row validator and the cross-reference pass each emit all
\* diagnostics of one row, in the order of their checks, before those of the
\* next row.
C25_OrderedByPassRowCheck ==
    (op = "validateData" /\ ~threw)
        => \A j, k \in 1..Len(result) :
               j < k => \/ PassOf(result[j]) < PassOf(result[k])
                        \/ /\ PassOf(result[j]) = PassOf(result[k])
                           /\ \/ result[j].row < result[k].row
                              \/ /\ result[j].row = result[k].row
                                 /\ CheckOf(result[j]) <= CheckOf(result[k])

\* two rows, each with two field errors, a skill error and a concurrency
\* warning, the first without a required column, the second a duplicate
C25_Witness ==
    /\ op = "validateData"
    /\ argType = "tasks"
    /\ argData = <<Without(TaskAllWrong, "Category"), TaskAllWrong>>
    /\ workerData # <<>>
    /\ [j \in 1..Len(result) |-> <<CheckOf(result[j]), result[j].row>>]
           = <<<<1, -1>>, <<2, 1>>, <<3, 0>>, <<5, 0>>, <<3, 1>>, <<5, 1>>,
               <<7, 0>>, <<8, 0>>, <<7, 1>>, <<8, 1>>>>

\* ------------------------------------------------------------------------
\* RulesBuilder (components/RulesBuilder.tsx): the rule list of the page, the
\* rule-creation form and the natural-language request.  A rule id is the
\* number generateRuleId's result stands for; createdAt, the group type and
\* the precedence payload are left out, as no guard reads them.
\* ------------------------------------------------------------------------

\* the number of rule ids a session hands out
MaxIds == 2

Null == [type |-> "null"]

\* createRule that builds the slot-restriction and load-limit rules whatever
\* the numbers in the form
NewRuleFromAnyCount(f, base) ==
    CASE f.activeRuleType = "coRun" /\ Len(f.selectedTasks) >= 2 ->
             [id |-> base.id, type |-> "coRun",
              name |-> <<"Co-run: ">> \o Join(f.selectedTasks, <<", ">>),
              priority |-> base.priority, enabled |-> base.enabled,
              tasks |-> f.selectedTasks]
      [] f.activeRuleType = "slotRestriction" /\ f.selectedGroup # <<>> ->
             [id |-> base.id, type |-> "slotRestriction",
              name |-> <<"Slot restriction: ">> \o f.selectedGroup \o <<" (min ">>
                           \o NumToStr(f.minCommonSlots) \o <<")">>,
              priority |-> base.priority, enabled |-> base.enabled,
              groupName |-> f.selectedGroup, minCommonSlots |-> f.minCommonSlots]
      [] f.activeRuleType = "loadLimit" /\ f.selectedGroup # <<>> ->
             [id |-> base.id, type |-> "loadLimit",
              name |-> <<"Load limit: ">> \o f.selectedGroup \o <<" (max ">>
                           \o NumToStr(f.maxSlotsPerPhase) \o <<"/phase)">>,
              priority |-> base.priority, enabled |-> base.enabled,
              workerGroup |-> f.selectedGroup, maxSlotsPerPhase |-> f.maxSlotsPerPhase]
      [] f.activeRuleType = "phaseWindow" /\ f.selectedTaskId # <<>>
             /\ Len(f.allowedPhases) > 0 ->
             [id |-> base.id, type |-> "phaseWindow",
              name |-> <<"Phase window: ">> \o f.selectedTaskId \o <<" in phases ">>
                           \o Join([k \in 1..Len(f.allowedPhases) |->
                                       NumToStr(f.allowedPhases[k])], <<", ">>),
              priority |-> base.priority, enabled |-> base.enabled,
              taskId |-> f.selectedTaskId, allowedPhases |-> f.allowedPhases]
      [] f.activeRuleType = "patternMatch" /\ f.regexPattern # <<>>
             /\ f.patternTemplate # <<>> ->
             [id |-> base.id, type |-> "patternMatch",
              name |-> <<"Pattern: ">> \o f.regexPattern,
              priority |-> base.priority, enabled |-> base.enabled,
              regex |-> f.regexPattern, template |-> f.patternTemplate]
      [] f.activeRuleType = "precedence" ->
             [id |-> base.id, type |-> "precedence", name |-> <<"Global precedence">>,
              priority |-> base.priority, enabled |-> base.enabled, scope |-> "global"]
      [] OTHER -> Null

\* the switch of createRule: the rule the form gives, Null when the form
\* does not pass the guard of its rule type
NewRuleFrom(f, base) ==
    CASE f.activeRuleType = "coRun" /\ Len(f.selectedTasks) >= 2 ->
             [id |-> base.id, type |-> "coRun",
              name |-> <<"Co-run: ">> \o Join(f.selectedTasks, <<", ">>),
              priority |-> base.priority, enabled |-> base.enabled,
              tasks |-> f.selectedTasks]
      [] f.activeRuleType = "slotRestriction" /\ f.selectedGroup # <<>>
             /\ f.minCommonSlots > 0 ->
             [id |-> base.id, type |-> "slotRestriction",
              name |-> <<"Slot restriction: ">> \o f.selectedGroup \o <<" (min ">>
                           \o NumToStr(f.minCommonSlots) \o <<")">>,
              priority |-> base.priority, enabled |-> base.enabled,
              groupName |-> f.selectedGroup, minCommonSlots |-> f.minCommonSlots]
      [] f.activeRuleType = "loadLimit" /\ f.selectedGroup # <<>>
             /\ f.maxSlotsPerPhase > 0 ->
             [id |-> base.id, type |-> "loadLimit",
              name |-> <<"Load limit: ">> \o f.selectedGroup \o <<" (max ">>
                           \o NumToStr(f.maxSlotsPerPhase) \o <<"/phase)">>,
              priority |-> base.priority, enabled |-> base.enabled,
              workerGroup |-> f.selectedGroup, maxSlotsPerPhase |-> f.maxSlotsPerPhase]
      [] f.activeRuleType = "phaseWindow" /\ f.selectedTaskId # <<>>
             /\ Len(f.allowedPhases) > 0 ->
             [id |-> base.id, type |-> "phaseWindow",
              name |-> <<"Phase window: ">> \o f.selectedTaskId \o <<" in phases ">>
                           \o Join([k \in 1..Len(f.allowedPhases) |->
                                       NumToStr(f.allowedPhases[k])], <<", ">>),
              priority |-> base.priority, enabled |-> base.enabled,
              taskId |-> f.selectedTaskId, allowedPhases |-> f.allowedPhases]
      [] f.activeRuleType = "patternMatch" /\ f.regexPattern # <<>>
             /\ f.patternTemplate # <<>> ->
             [id |-> base.id, type |-> "patternMatch",
              name |-> <<"Pattern: ">> \o f.regexPattern,
              priority |-> base.priority, enabled |-> base.enabled,
              regex |-> f.regexPattern, template |-> f.patternTemplate]
      [] f.activeRuleType = "precedence" ->
             [id |-> base.id, type |-> "precedence", name |-> <<"Global precedence">>,
              priority |-> base.priority, enabled |-> base.enabled, scope |-> "global"]
      [] OTHER -> Null

\* the handler leaves the engine alone; op records that it ran
Handled(name) ==
    /\ op' = name
    /\ UNCHANGED <<clientData, workerData, taskData, rules, argType, argData, argRules,
                   argsAfter, result, threw, repeated, kept>>

\* the input handlers of the form (type buttons, check boxes, selects and
\* number inputs) have brought the form to f
FillForm(f) ==
    /\ form' = f
    /\ Handled("fillForm")
    /\ UNCHANGED <<pageRules, isProcessingNL, nlPending, nextId>>

\* createRule()
CreateRule ==
    /\ LET baseRule == [id |-> nextId, priority |-> Len(pageRules) + 1, enabled |-> TRUE]
           newRule == NewRuleFrom(form, baseRule)
       IN  IF newRule # Null
           THEN /\ nextId <= MaxIds
                /\ pageRules' = Append(pageRules, newRule)
                /\ form' = EmptyForm
                /\ nextId' = nextId + 1
           ELSE UNCHANGED <<pageRules, form, nextId>>
    /\ Handled("createRule")
    /\ UNCHANGED <<isProcessingNL, nlPending>>

\* rules.filter(r => r.id !== ruleId)
WithoutRule(rs, ruleId) == KeepAt(rs, {k \in 1..Len(rs) : rs[k].id # ruleId}, 1)

\* rules.map(r => r.id === ruleId ? { ...r, enabled: !r.enabled } : r)
Toggled(rs, ruleId) ==
    [k \in 1..Len(rs) |->
        IF rs[k].id = ruleId THEN [rs[k] EXCEPT !.enabled = ~rs[k].enabled] ELSE rs[k]]

\* deleteRule(ruleId), from the delete button of a listed rule
DeleteRule(ruleId) ==
    /\ pageRules' = WithoutRule(pageRules, ruleId)
    /\ Handled("deleteRule")
    /\ UNCHANGED <<form, isProcessingNL, nlPending, nextId>>

\* toggleRule(ruleId), from the toggle button of a listed rule
ToggleRule(ruleId) ==
    /\ pageRules' = Toggled(pageRules, ruleId)
    /\ Handled("toggleRule")
    /\ UNCHANGED <<form, isProcessingNL, nlPending, nextId>>

\* handleNaturalLanguageRule() up to its await, with the query text typed
\* into the box: the handler keeps the rules prop of the render it was
\* created in
StartNaturalLanguageRule(nlQuery) ==
    /\ IF Trim(nlQuery) = <<>> \/ isProcessingNL
       THEN UNCHANGED <<isProcessingNL, nlPending>>
       ELSE /\ isProcessingNL' = TRUE
            /\ nlPending' = [active |-> TRUE, rules |-> pageRules]
    /\ Handled("handleNaturalLanguageRule")
    /\ UNCHANGED <<pageRules, form, nextId>>

\* the request resolves with newRule (Null when the service gives none): the
\* rest of the try block and the finally block
ResolveNaturalLanguageRule(newRule) ==
    /\ nlPending.active
    /\ IF newRule # Null
       THEN /\ nextId <= MaxIds
            /\ pageRules' = Append(nlPending.rules, [newRule EXCEPT !.id = nextId])
            /\ nextId' = nextId + 1
       ELSE UNCHANGED <<pageRules, nextId>>
    /\ isProcessingNL' = FALSE
    /\ nlPending' = NoRequest
    /\ Handled("resolveNL")
    /\ UNCHANGED form

\* the request fails: the catch block and the finally block
RejectNaturalLanguageRule ==
    /\ nlPending.active
    /\ isProcessingNL' = FALSE
    /\ nlPending' = NoRequest
    /\ Handled("rejectNL")
    /\ UNCHANGED <<pageRules, form, nextId>>

\* form states the input handlers lead to: tasks ticked in some order, a
\* group name typed or not, a count typed into a number input (parseInt of
\* the text, 1 when that is 0 or NaN), a task selected or not, phases ticked
FormInputs ==
    {[EmptyForm EXCEPT !.activeRuleType = "coRun", !.selectedTasks = ts] :
        ts \in {<<T1>>, <<T2, T1>>}}
    \cup {[EmptyForm EXCEPT !.activeRuleType = "slotRestriction",
                            !.selectedGroup = <<"g">>, !.minCommonSlots = n] :
             n \in {-1, 2}}
    \cup {[EmptyForm EXCEPT !.activeRuleType = "loadLimit",
                            !.selectedGroup = <<"g">>, !.maxSlotsPerPhase = n] :
             n \in {-1, 1}}
    \cup {[EmptyForm EXCEPT !.activeRuleType = "phaseWindow",
                            !.selectedTaskId = T1, !.allowedPhases = ps] :
             ps \in {<<>>, <<1, 2>>}}
    \cup {[EmptyForm EXCEPT !.activeRuleType = "phaseWindow", !.allowedPhases = <<1, 2>>]}
    \cup {[EmptyForm EXCEPT !.activeRuleType = "patternMatch", !.regexPattern = <<"x">>],
          [EmptyForm EXCEPT !.activeRuleType = "precedence"]}

RuleIds(rs) == {rs[k].id : k \in 1..Len(rs)}

\* the manual form: fill it in, create, delete, toggle
NextBuilder ==
    \/ \E f \in FormInputs : FillForm(f)
    \/ CreateRule
    \/ \E ruleId \in RuleIds(pageRules) : DeleteRule(ruleId)
    \/ \E ruleId \in RuleIds(pageRules) : ToggleRule(ruleId)

SpecBuilder == Init /\ [][NextBuilder]_vars

\* the constraint of a rule's variant
SatisfiesVariant(r) ==
    CASE r.type = "coRun" -> Len(r.tasks) >= 2
      [] r.type = "phaseWindow" ->
             /\ r.taskId # <<>>
             /\ r.allowedPhases # <<>>
             /\ \A k \in 1..Len(r.allowedPhases) : r.allowedPhases[k] >= 1
      [] r.type = "slotRestriction" -> r.minCommonSlots >= 1
      [] r.type = "loadLimit" -> r.maxSlotsPerPhase >= 1
      [] OTHER -> TRUE

\* the constraint of the variant the form is set to, on the form's input
FormSatisfiesVariant(f) ==
    CASE f.activeRuleType = "coRun" -> Len(f.selectedTasks) >= 2
      [] f.activeRuleType = "phaseWindow" ->
             /\ f.selectedTaskId # <<>>
             /\ f.allowedPhases # <<>>
             /\ \A k \in 1..Len(f.allowedPhases) : f.allowedPhases[k] >= 1
      [] f.activeRuleType = "slotRestriction" -> f.minCommonSlots >= 1
      [] f.activeRuleType = "loadLimit" -> f.maxSlotsPerPhase >= 1
      [] OTHER -> TRUE

\* C26: starting from an empty rule list, after any sequence of manual-form
\* createRule, deleteRule and toggleRule operations every rule of the list
\* satisfies the constraint of its variant (CoRun: at least 2 tasks;
\* PhaseWindow: a task id and a non-empty set of positive phases;
\* SlotRestriction: minCommonSlots >= 1; LoadLimit: maxSlotsPerPhase >= 1),
\* and a createRule whose form input violates the constraint leaves the rule
\* list unchanged.
C26_RulesSatisfyVariant ==
    [][/\ \A k \in 1..Len(pageRules') : SatisfiesVariant(pageRules'[k])
       /\ (op' = "createRule" /\ ~FormSatisfiesVariant(form))
              => pageRules' = pageRules]_vars

\* a load limit and a phase window are in the list, the first switched off,
\* and createRule has just refused a slot restriction with the count -1
C26_Witness ==
    /\ op = "createRule"
    /\ form.activeRuleType = "slotRestriction"
    /\ form.minCommonSlots = -1
    /\ Len(pageRules) = 2
    /\ pageRules[1].type = "loadLimit"
    /\ ~pageRules[1].enabled
    /\ pageRules[2].type = "phaseWindow"

\* what the natural-language service resolves with: nothing, or a rule as
\* the model wrote it (here a co-run rule, not yet given its id)
ServiceRules ==
    {Null,
     [id |-> 0, type |-> "coRun", name |-> <<"T1 with T3">>, priority |-> 1,
      enabled |-> TRUE, tasks |-> <<T1, T3>>]}

\* the query box: empty, or holding some text
Queries == {<<>>, <<"x">>}

\* the form the user fills in while a request is in flight
PendingForms == {[EmptyForm EXCEPT !.activeRuleType = "coRun", !.selectedTasks = <<T2, T1>>]}

\* the manual form next to the natural-language box
NextNL ==
    \/ \E nlQuery \in Queries : StartNaturalLanguageRule(nlQuery)
    \/ \E newRule \in ServiceRules : ResolveNaturalLanguageRule(newRule)
    \/ RejectNaturalLanguageRule
    \/ \E f \in PendingForms : FillForm(f)
    \/ CreateRule
    \/ \E ruleId \in RuleIds(pageRules) : DeleteRule(ruleId)
    \/ \E ruleId \in RuleIds(pageRules) : ToggleRule(ruleId)

SpecNL == Init /\ [][NextNL]_vars

\* C30: no rule-list update is lost across a pending natural-language
\* request: when the request resolves with a rule, the list handed to
\* onRulesChange is the rule list of that moment with the new rule appended,
\* also when a rule was created, deleted or toggled since the request
\* started; isProcessingNL is true exactly while a request is pending and is
\* false after the request resolved or failed.
C30_NoUpdateLost ==
    [][/\ (op' = "resolveNL" /\ nextId' # nextId)
              => /\ Len(pageRules') = Len(pageRules) + 1
                 /\ SubSeq(pageRules', 1, Len(pageRules)) = pageRules
                 /\ pageRules'[Len(pageRules')].id = nextId
       /\ isProcessingNL' = nlPending'.active
       /\ op' \in {"resolveNL", "rejectNL"} => ~isProcessingNL']_vars

\* C27: for a rule list with fewer than two enabled CoRun rules,
\* validateRules returns no circular co-run error, whatever the number of
\* tasks of the single enabled CoRun rule.
C27_SingleRuleNeverCircular ==
    (op = "validateRules" /\ Cardinality(EnabledCoRunAt(argRules)) < 2)
        => CircularAt(result) = {}

\* the only enabled co-run rule names three tasks, next to a disabled rule
C27_Witness ==
    /\ op = "validateRules"
    /\ argRules = <<RuleT123, RuleT12Off>>
    /\ CircularAt(result) = {}

\* C28: the rule list stored by setRules influences no result: after any
\* sequence of setter calls validateRules(rules) returns what its argument
\* and the stored task snapshot give, and validateData(kind, rows) what its
\* arguments and the stored worker and task snapshots give, whatever rule
\* list is stored.
C28_StoredRulesUnread ==
    [][/\ op' = "validateRules" => result' = validateRules(argRules', taskData)
       /\ op' = "validateData"
              => [errors |-> result', threw |-> threw']
                     = validateData(argType', argData', workerData, taskData)]_vars

\* two chained co-run rules are stored, which validateRules would report as
\* circular, and the empty list is validated: no diagnostic
C28_Witness ==
    /\ op = "validateRules"
    /\ rules = <<RuleT12, RuleT23>>
    /\ CircularAt(validateRules(rules, taskData)) # {}
    /\ argRules = <<>>
    /\ result = <<>>

\* ------------------------------------------------------------------------
\* The Validator without rule support (the first app/utils/validations.ts of
\* the repository): all of it reads as the Validator with rule support
\* except the demand loop of validatePhaseSlotSaturation, which parses
\* PreferredPhases in place
\* ------------------------------------------------------------------------

\* the phases of a truthy PreferredPhases cell, as the demand loop parses them
InlinePhases(v) ==
    LET phasesStr == Trim(ToStr(v))
    IN  IF Includes(phasesStr, "-") /\ ~StartsWith(phasesStr, "[")
        THEN LET parts == Split(phasesStr, "-")
                 start == parseIntStr(Trim(parts[1]))
                 end == parseIntStr(Trim(parts[2]))
             IN  IF ~isNaN(start) /\ ~isNaN(end)
                 THEN Range(start.v, end.v)
                 ELSE <<>>
        ELSE LET cleanedPhases ==
                     IF StartsWith(phasesStr, "[") /\ EndsWith(phasesStr, "]")
                     THEN SubSeq(phasesStr, 2, Len(phasesStr) - 1)
                     ELSE phasesStr
                 toks == Split(cleanedPhases, ",")
             IN  NotNaN([k \in 1..Len(toks) |-> parseIntStr(Trim(toks[k]))])

RECURSIVE InlineDemandFrom(_, _, _)
InlineDemandFrom(tasks, i, m) ==
    IF i > Len(tasks) THEN m
    ELSE LET pp == Get(tasks[i], "PreferredPhases")
             phases == IF Truthy(pp) THEN InlinePhases(pp) ELSE <<>>
         IN  InlineDemandFrom(tasks, i + 1, AddPhases(m, phases, DurationOr1(tasks[i])))

InlineSaturation(tData, wData) ==
    LET phaseCapacity == CapacityFrom(wData, 1, <<>>)
        phaseDemand == InlineDemandFrom(tData, 1, <<>>)
    IN  Flatten([i \in 1..Len(phaseDemand) |->
            LET phase == phaseDemand[i].k
                demand == phaseDemand[i].v
                capacity == MapGet(phaseCapacity, phase)
            IN  IF demand > capacity
                THEN <<Diag("error",
                            <<"Phase ">> \o NumToStr(phase) \o <<MsgSaturation>>
                                \o NumToStr(demand) \o <<" task duration > ">>
                                \o NumToStr(capacity) \o <<" worker slots">>,
                            -1, NoField)>>
                ELSE <<>>])

\* validateCrossReferences of the Validator without rule support
validateCrossReferencesWithoutRules(type, data, wData, tData) ==
    (IF type = "clients" /\ Len(tData) > 0
     THEN LET validTaskIds == {Get(tData[i], "TaskID") : i \in 1..Len(tData)}
          IN  ForEachRow(data, [i \in 1..Len(data) |->
                                   ClientRefErrors(data[i], i - 1, validTaskIds)])
     ELSE <<>>)
    \o
    (IF type = "tasks" /\ Len(wData) > 0
     THEN ForEachRow(data, [i \in 1..Len(data) |-> TaskRefErrors(data[i], i - 1, wData)])
     ELSE <<>>)
    \o
    (IF type \in {"workers", "tasks"} /\ Len(tData) > 0 /\ Len(wData) > 0
     THEN InlineSaturation(tData, wData)
     ELSE <<>>)

\* validateData of the Validator without rule support
validateDataWithoutRules(type, data, wData, tData) ==
    LET kind == IF type = "clients" THEN validateClientData(data)
                ELSE [errors |-> IF type = "workers" THEN validateWorkerData(data)
                                 ELSE validateTaskData(data),
                      threw  |-> FALSE]
    IN  IF kind.threw THEN [errors |-> <<>>, threw |-> TRUE]
        ELSE [errors |-> validateRequiredColumns(type, data)
                           \o validateDuplicateIds(type, data)
                           \o kind.errors
                           \o validateCrossReferencesWithoutRules(type, data, wData, tData),
              threw  |-> FALSE]

\* C29: the two Validator versions of the repository are equivalent on data
\* validation: after the same setData calls, validateData(kind, rows)
\* returns in the version with rule support (saturation through parsePhases)
\* the diagnostic list the version without rule support (phase parsing in
\* place) returns, for every kind and row set.
C29_VersionsAgree ==
    op = "validateData"
        => [errors |-> result, threw |-> threw]
               = validateDataWithoutRules(argType, argData, workerData, taskData)

\* a reversed range, which parsePhases refuses and the inline loop runs zero
\* times over, is stored next to the range 1-2: both versions report phase 2
C29_Witness ==
    /\ op = "validateData"
    /\ argType = "workers"
    /\ workerData = <<WorkerSlot1>>
    /\ taskData = <<TaskPhases(<<"2", "-", "1">>), Task12>>
    /\ SaturationOf(result, 2) # {}
    /\ SaturationOf(result, 1) = {}

=============================================================================
